---------------------------- MODULE Spec2Model ----------------------------
(***************************************************************************)
(* MeetMesh: the Room Authority of src/server.ts as a state machine.       *)
(*                                                                         *)
(* One action per socket.io event handler.  A handler runs to completion   *)
(* on Node's single-threaded event loop, so each handler is one atomic     *)
(* step.  Each handler is written as an operator that maps the current     *)
(* state and the event's arguments to the state it leaves behind and the   *)
(* messages it emits (field out, in emission order); the action applies    *)
(* that result.  JavaScript Map and Set iterate in insertion order; the maps and  *)
(* sets whose iteration order the code observes (roomMetadata,             *)
(* waitingRooms and its inner maps, socketToUser, the member sets) are     *)
(* modelled as sequences in insertion order, the others (rooms,            *)
(* userToRoom) as functions.  An optional value (the result of Map.get,    *)
(* possibly undefined) is a set of at most one element.                    *)
(*                                                                         *)
(* userNames (src/server.ts:41) is written by join-room, leave-room and    *)
(* disconnect and never read; display names are left out of the model.     *)
(*                                                                         *)
(* The Peer Session Negotiator of src/hooks/useWebRTC.ts is the second     *)
(* state machine of the module: one instance of the hook per client, its   *)
(* refs and React state as the fields of a record, one operator per        *)
(* signaling listener and effect.  The server actions leave the            *)
(* negotiators alone and the negotiator specifications leave the server    *)
(* alone.                                                                  *)
(***************************************************************************)
EXTENDS Integers, Sequences, FiniteSets, TLC

NumUsers == 3
NumRooms == 2
NumSockets == 3
MaxEvents == 4
NumClients == 3
MaxSteps == 4
MaxSamplerSteps == 8
MaxSwitches == 2
MaxLobbySteps == 4
MaxCount == 2

Users == 1..NumUsers
RoomIds == 1..NumRooms
Sockets == 1..NumSockets

VARIABLES
    connected,      \* io.sockets.sockets: the sessions currently connected
    socketRooms,    \* socket.io adapter: session -> set of rooms it has joined (delivery groups)
    rooms,          \* RoomID -> member set, in insertion order
    roomMetadata,   \* ordered map RoomID -> RoomMeta
    waitingRooms,   \* ordered map RoomID -> ordered map odId -> WaitingUser
    socketToUser,   \* ordered map socket id -> user id
    userToRoom,     \* user id -> RoomID
    fault,          \* TRUE once a handler has thrown (uncaught exception in the coordinator)
    events,         \* number of events handled so far that changed the state
    negotiator,     \* client -> the state of its useWebRTC hook
    signals,        \* <<from, to>> -> signaling messages relayed but not yet delivered
    steps           \* number of negotiator steps taken so far

serverVars == <<connected, socketRooms, rooms, roomMetadata, waitingRooms,
                socketToUser, userToRoom, fault, events>>

clientVars == <<negotiator, signals, steps>>

vars == <<connected, socketRooms, rooms, roomMetadata, waitingRooms,
          socketToUser, userToRoom, fault, events, negotiator, signals, steps>>



-----------------------------------------------------------------------------
(* Optional values *)

The(opt) == CHOOSE x \in opt : TRUE

(* Ordered Map: a sequence of <<key, value>> pairs in insertion order. *)

MapKeys(m) == { m[i][1] : i \in 1..Len(m) }

MapHas(m, k) == k \in MapKeys(m)

MapGet(m, k) == { m[i][2] : i \in { j \in 1..Len(m) : m[j][1] = k } }

MapSet(m, k, v) ==
    IF MapHas(m, k)
    THEN [ i \in 1..Len(m) |-> IF m[i][1] = k THEN <<k, v>> ELSE m[i] ]
    ELSE Append(m, <<k, v>>)

MapDelete(m, k) == SelectSeq(m, LAMBDA e : e[1] # k)

(* Array.from(m.entries()).find(([_, v]) => v === val)?.[0] *)
MapFindKey(m, val) ==
    LET hits == { i \in 1..Len(m) : m[i][2] = val }
    IN  IF hits = {} THEN {}
        ELSE { m[CHOOSE i \in hits : \A j \in hits : i <= j][1] }

(* Ordered Set: a sequence without repetitions in insertion order. *)

SetElems(q) == { q[i] : i \in 1..Len(q) }

SetAdd_Dropped(q, x) == q

SetAdd(q, x) == IF x \in SetElems(q) THEN q ELSE Append(q, x)

SetDelete(q, x) == SelectSeq(q, LAMBDA e : e # x)

(* Unordered Map: a function on its key set. *)

EmptyFun == [ x \in {} |-> 0 ]

FunGet(f, k) == IF k \in DOMAIN f THEN { f[k] } ELSE {}

FunSet(f, k, v) == [ x \in DOMAIN f \cup {k} |-> IF x = k THEN v ELSE f[x] ]

FunDelete_Keeps(f, k) == f

FunDelete(f, k) == [ x \in DOMAIN f \ {k} |-> f[x] ]

-----------------------------------------------------------------------------
(* Messages *)

Msg(to, type, body) == [ to |-> to, type |-> type, body |-> body ]

(* socket.emit / io.to(socketId).emit: the session's own room holds it while connected *)
ToSocket(conn, sid) == {sid} \cap conn

(* io.to(roomId): every session in the room's delivery group *)
InRoom(sr, roomId) == { s \in DOMAIN sr : roomId \in sr[s] }

(* socket.to(roomId): the delivery group except the sending session *)
OthersInRoom(sr, roomId, sid) == InRoom(sr, roomId) \ {sid}

WaitingList(waiting) == [ i \in 1..Len(waiting) |-> waiting[i][2].odId ]

getPublicRooms_PrivateListed(rs, metas) ==
    LET visible == SelectSeq(metas, LAMBDA e :
                       (IF e[1] \in DOMAIN rs THEN Len(rs[e[1]]) ELSE 0) > 0)
    IN  [ i \in 1..Len(visible) |->
            [ roomId      |-> visible[i][1],
              count       |-> Len(rs[visible[i][1]]),
              isLocked    |-> visible[i][2].isLocked,
              waitingRoom |-> visible[i][2].waitingRoom ] ]

getPublicRooms(rs, metas) ==
    LET visible == SelectSeq(metas, LAMBDA e :
                       /\ e[2].isPublic
                       /\ (IF e[1] \in DOMAIN rs THEN Len(rs[e[1]]) ELSE 0) > 0)
    IN  [ i \in 1..Len(visible) |->
            [ roomId      |-> visible[i][1],
              count       |-> Len(rs[visible[i][1]]),
              isLocked    |-> visible[i][2].isLocked,
              waitingRoom |-> visible[i][2].waitingRoom ] ]

broadcastPublicRooms_Stale(conn, rs, metas) ==
    Msg(conn, "rooms-update", [ rooms |-> getPublicRooms(rooms, roomMetadata) ])

broadcastPublicRooms(conn, rs, metas) ==
    Msg(conn, "rooms-update", [ rooms |-> getPublicRooms(rs, metas) ])

getRoomSettings(metas, roomId) ==
    LET meta == MapGet(metas, roomId)
    IN  [ isLocked    |-> IF meta = {} THEN FALSE ELSE The(meta).isLocked,
          waitingRoom |-> IF meta = {} THEN FALSE ELSE The(meta).waitingRoom,
          hostId      |-> { m.hostId : m \in meta } ]

-----------------------------------------------------------------------------
(* Handler results *)

Configs == [ isPublic : BOOLEAN, waitingRoom : BOOLEAN ]

(* The state as a handler finds it, with nothing emitted yet. *)
Current ==
    [ connected    |-> connected,
      socketRooms  |-> socketRooms,
      rooms        |-> rooms,
      roomMetadata |-> roomMetadata,
      waitingRooms |-> waitingRooms,
      socketToUser |-> socketToUser,
      userToRoom   |-> userToRoom,
      fault        |-> fault,
      out          |-> << >> ]

Changes(r) == [ r EXCEPT !.out = << >> ] # Current

(* The server's state after a handler that gave result *)
Commit(result) ==
    LET r == result
        changes == Changes(r)
    IN  /\ changes => events < MaxEvents
        /\ events' = IF changes THEN events + 1 ELSE events
        /\ connected' = r.connected
        /\ socketRooms' = r.socketRooms
        /\ rooms' = r.rooms
        /\ roomMetadata' = r.roomMetadata
        /\ waitingRooms' = r.waitingRooms
        /\ socketToUser' = r.socketToUser
        /\ userToRoom' = r.userToRoom
        /\ fault' = r.fault

Apply(result) ==
    /\ Commit(result)
    /\ UNCHANGED clientVars

(* socket.on('get-rooms') *)
get_rooms(sid) ==
    [ Current EXCEPT !.out = << Msg(ToSocket(connected, sid), "rooms-update",
                                    [ rooms |-> getPublicRooms(rooms, roomMetadata) ]) >> ]

(* socket.on('join-room'), room locked *)
joinLocked(sid, roomId) ==
    [ Current EXCEPT !.out = << Msg(ToSocket(connected, sid), "room-locked",
                                    [ roomId |-> roomId ]) >> ]

(* socket.on('join-room'), waiting room enabled and the user is not the host *)
joinWaiting(sid, roomId, odId, existingMeta) ==
    LET waitingRooms1 == IF ~MapHas(waitingRooms, roomId)
                         THEN MapSet(waitingRooms, roomId, << >>)
                         ELSE waitingRooms
        waiting == MapSet(The(MapGet(waitingRooms1, roomId)), odId,
                          [ odId |-> odId, socketId |-> sid ])
        stu == MapSet(socketToUser, sid, odId)
        hostSocketId == MapFindKey(stu, existingMeta.hostId)
    IN  [ Current EXCEPT
            !.waitingRooms = MapSet(waitingRooms1, roomId, waiting),
            !.socketToUser = stu,
            !.out = << Msg(ToSocket(connected, sid), "waiting-room",
                           [ roomId |-> roomId, position |-> Len(waiting) ]) >>
                    \o (IF hostSocketId # {}
                        THEN << Msg(ToSocket(connected, The(hostSocketId)),
                                    "waiting-room-update",
                                    [ roomId       |-> roomId,
                                      waitingUsers |-> WaitingList(waiting) ]) >>
                        ELSE << >>) ]

(* socket.on('join-room'), direct join (no waiting room, or the host) *)
joinDirect(sid, roomId, odId, config, isNewRoom) ==
    LET sr == [ socketRooms EXCEPT ![sid] = @ \cup {roomId} ]
        rooms1 == IF isNewRoom THEN FunSet(rooms, roomId, << >>) ELSE rooms
        metas == IF isNewRoom
                 THEN MapSet(roomMetadata, roomId,
                             [ isPublic    |-> config.isPublic,
                               hostId      |-> odId,
                               isLocked    |-> FALSE,
                               waitingRoom |-> config.waitingRoom ])
                 ELSE roomMetadata
        roomUsers == FunGet(rooms1, roomId)
        rooms2 == IF roomUsers # {}
                  THEN FunSet(rooms1, roomId, SetAdd(The(roomUsers), odId))
                  ELSE rooms1
        meta == MapGet(metas, roomId)
    IN  [ Current EXCEPT
            !.socketRooms = sr,
            !.socketToUser = MapSet(socketToUser, sid, odId),
            !.userToRoom = FunSet(userToRoom, odId, roomId),
            !.rooms = rooms2,
            !.roomMetadata = metas,
            !.waitingRooms = IF isNewRoom THEN MapSet(waitingRooms, roomId, << >>)
                             ELSE waitingRooms,
            !.out = (IF roomUsers # {}
                     THEN << Msg(OthersInRoom(sr, roomId, sid), "user-connected",
                                 [ userId |-> odId ]) >>
                     ELSE << >>)
                    \o << Msg(ToSocket(connected, sid), "room-joined",
                              [ roomId   |-> roomId,
                                isHost   |-> (meta # {} /\ The(meta).hostId = odId),
                                settings |-> getRoomSettings(metas, roomId) ]),
                          broadcastPublicRooms(connected, rooms2, metas) >> ]

join_room_LockIgnored(sid, roomId, odId, config) ==
    LET existingMeta == MapGet(roomMetadata, roomId)
        isNewRoom == existingMeta = {}
    IN  IF ~isNewRoom /\ The(existingMeta).waitingRoom
           /\ The(existingMeta).hostId # odId
        THEN joinWaiting(sid, roomId, odId, The(existingMeta))
        ELSE joinDirect(sid, roomId, odId, config, isNewRoom)

join_room(sid, roomId, odId, config) ==
    LET existingMeta == MapGet(roomMetadata, roomId)
        isNewRoom == existingMeta = {}
    IN  IF ~isNewRoom /\ The(existingMeta).isLocked
        THEN joinLocked(sid, roomId)
        ELSE IF ~isNewRoom /\ The(existingMeta).waitingRoom
                /\ The(existingMeta).hostId # odId
             THEN joinWaiting(sid, roomId, odId, The(existingMeta))
             ELSE joinDirect(sid, roomId, odId, config, isNewRoom)

NotHost_Unchecked(sid, roomId) == FALSE

(* meta?.hostId !== hostUserId: both sides optional, undefined equals undefined *)
NotHost(sid, roomId) ==
    { m.hostId : m \in MapGet(roomMetadata, roomId) } # MapGet(socketToUser, sid)

(* waitingRooms.get(roomId)?.get(odId) *)
WaitingUserOf(wrs, roomId, odId) ==
    LET waiting == MapGet(wrs, roomId)
    IN  IF waiting = {} THEN {} ELSE MapGet(The(waiting), odId)

(* socket.on('admit-user') *)
admit_user(sid, roomId, odId) ==
    LET waitingUser == WaitingUserOf(waitingRooms, roomId, odId)
        waiting == MapDelete(The(MapGet(waitingRooms, roomId)), odId)
        targetSocket == ToSocket(connected, The(waitingUser).socketId)
        sr == [ socketRooms EXCEPT ![The(targetSocket)] = @ \cup {roomId} ]
        roomUsers == FunGet(rooms, roomId)
        rooms1 == IF targetSocket # {} /\ roomUsers # {}
                  THEN FunSet(rooms, roomId, SetAdd(The(roomUsers), odId))
                  ELSE rooms
    IN  IF NotHost(sid, roomId) THEN Current
        ELSE IF waitingUser = {} THEN Current
        ELSE [ Current EXCEPT
                 !.waitingRooms = MapSet(waitingRooms, roomId, waiting),
                 !.socketRooms = IF targetSocket # {} THEN sr ELSE socketRooms,
                 !.userToRoom = IF targetSocket # {}
                                THEN FunSet(userToRoom, odId, roomId)
                                ELSE userToRoom,
                 !.rooms = rooms1,
                 !.out = (IF targetSocket # {}
                          THEN (IF roomUsers # {}
                                THEN << Msg(OthersInRoom(sr, roomId, The(targetSocket)),
                                            "user-connected", [ userId |-> odId ]) >>
                                ELSE << >>)
                               \o << Msg(targetSocket, "admitted",
                                         [ roomId   |-> roomId,
                                           isHost   |-> FALSE,
                                           settings |-> getRoomSettings(roomMetadata, roomId) ]) >>
                          ELSE << >>)
                         \o << Msg(ToSocket(connected, sid), "waiting-room-update",
                                   [ roomId       |-> roomId,
                                     waitingUsers |-> WaitingList(waiting) ]),
                               broadcastPublicRooms(connected, rooms1, roomMetadata) >> ]

(* socket.on('deny-user') *)
deny_user(sid, roomId, odId) ==
    LET waitingUser == WaitingUserOf(waitingRooms, roomId, odId)
        waiting == MapDelete(The(MapGet(waitingRooms, roomId)), odId)
        targetSocket == ToSocket(connected, The(waitingUser).socketId)
    IN  IF NotHost(sid, roomId) THEN Current
        ELSE IF waitingUser = {} THEN Current
        ELSE [ Current EXCEPT
                 !.waitingRooms = MapSet(waitingRooms, roomId, waiting),
                 !.socketToUser = IF targetSocket # {}
                                  THEN MapDelete(socketToUser, The(waitingUser).socketId)
                                  ELSE socketToUser,
                 !.out = (IF targetSocket # {}
                          THEN << Msg(targetSocket, "denied", [ roomId |-> roomId ]) >>
                          ELSE << >>)
                         \o << Msg(ToSocket(connected, sid), "waiting-room-update",
                                   [ roomId       |-> roomId,
                                     waitingUsers |-> WaitingList(waiting) ]) >> ]

(* socket.on('toggle-lock'): meta.isLocked on an undefined meta throws *)
toggle_lock(sid, roomId) ==
    LET meta == MapGet(roomMetadata, roomId)
        metas == MapSet(roomMetadata, roomId,
                        [ The(meta) EXCEPT !.isLocked = ~The(meta).isLocked ])
    IN  IF NotHost(sid, roomId) THEN Current
        ELSE IF meta = {} THEN [ Current EXCEPT !.fault = TRUE ]
        ELSE [ Current EXCEPT
                 !.roomMetadata = metas,
                 !.out = << Msg(InRoom(socketRooms, roomId), "room-settings-update",
                                getRoomSettings(metas, roomId)),
                            broadcastPublicRooms(connected, rooms, metas) >> ]

(* socket.on('toggle-waiting-room'): meta.waitingRoom on an undefined meta throws *)
toggle_waiting_room(sid, roomId) ==
    LET meta == MapGet(roomMetadata, roomId)
        metas == MapSet(roomMetadata, roomId,
                        [ The(meta) EXCEPT !.waitingRoom = ~The(meta).waitingRoom ])
    IN  IF NotHost(sid, roomId) THEN Current
        ELSE IF meta = {} THEN [ Current EXCEPT !.fault = TRUE ]
        ELSE [ Current EXCEPT
                 !.roomMetadata = metas,
                 !.out = << Msg(InRoom(socketRooms, roomId), "room-settings-update",
                                getRoomSettings(metas, roomId)),
                            broadcastPublicRooms(connected, rooms, metas) >> ]

transferHost_Skipped(metas, roomId, newHostId) == metas

(* Host transfer on leave-room and disconnect: meta.hostId = newHostId *)
transferHost(metas, roomId, newHostId) ==
    MapSet(metas, roomId, [ The(MapGet(metas, roomId)) EXCEPT !.hostId = newHostId ])

(* Host transfer on leave-room and disconnect: the notifications to the new host *)
hostChanged(conn, stu, wrs, metas, roomId, newHostId) ==
    LET newHostSocketId == MapFindKey(stu, newHostId)
        waiting == MapGet(wrs, roomId)
    IN  IF newHostSocketId = {} THEN << >>
        ELSE << Msg(ToSocket(conn, The(newHostSocketId)), "host-changed",
                    [ isHost |-> TRUE ]),
                Msg(ToSocket(conn, The(newHostSocketId)), "room-settings-update",
                    getRoomSettings(metas, roomId)) >>
             \o (IF waiting # {} /\ Len(The(waiting)) > 0
                 THEN << Msg(ToSocket(conn, The(newHostSocketId)), "waiting-room-update",
                             [ roomId       |-> roomId,
                               waitingUsers |-> WaitingList(The(waiting)) ]) >>
                 ELSE << >>)

(* Cleanup of an empty room: the sessions of the still-waiting users that are connected *)
closedSockets(conn, waiting) ==
    SelectSeq([ i \in 1..Len(waiting) |-> waiting[i][2].socketId ],
              LAMBDA s : s \in conn)

roomClosed(conn, roomId, waiting) ==
    LET ws == closedSockets(conn, waiting)
    IN  [ i \in 1..Len(ws) |-> Msg({ws[i]}, "room-closed", [ roomId |-> roomId ]) ]

unbindClosed(stu, conn, waiting) ==
    LET ws == closedSockets(conn, waiting)
    IN  SelectSeq(stu, LAMBDA e : \A i \in 1..Len(ws) : ws[i] # e[1])

(* socket.on('leave-room') *)
leave_room(sid, roomId, userId) ==
    LET sr == [ socketRooms EXCEPT ![sid] = @ \ {roomId} ]
        roomUsers == FunGet(rooms, roomId)
        meta == MapGet(roomMetadata, roomId)
        remaining == SetDelete(The(roomUsers), userId)
        transfer == /\ roomUsers # {}
                    /\ meta # {} /\ The(meta).hostId = userId
                    /\ Len(remaining) > 0
        metas1 == IF transfer
                  THEN transferHost(roomMetadata, roomId, remaining[1])
                  ELSE roomMetadata
        empty == roomUsers # {} /\ Len(remaining) = 0
        waiting == MapGet(waitingRooms, roomId)
        rooms1 == IF roomUsers = {} THEN rooms
                  ELSE IF empty THEN FunDelete(rooms, roomId)
                  ELSE FunSet(rooms, roomId, remaining)
        metas2 == IF empty THEN MapDelete(metas1, roomId) ELSE metas1
    IN  [ Current EXCEPT
            !.socketRooms = sr,
            !.rooms = rooms1,
            !.roomMetadata = metas2,
            !.waitingRooms = IF empty THEN MapDelete(waitingRooms, roomId)
                             ELSE waitingRooms,
            !.socketToUser = IF empty /\ waiting # {}
                             THEN unbindClosed(socketToUser, connected, The(waiting))
                             ELSE socketToUser,
            !.userToRoom = FunDelete(userToRoom, userId),
            !.out = (IF transfer
                     THEN hostChanged(connected, socketToUser, waitingRooms, metas1,
                                      roomId, remaining[1])
                     ELSE << >>)
                    \o (IF empty /\ waiting # {}
                        THEN roomClosed(connected, roomId, The(waiting))
                        ELSE << >>)
                    \o << Msg(OthersInRoom(sr, roomId, sid), "user-disconnected",
                              [ userId |-> userId ]),
                          broadcastPublicRooms(connected, rooms1, metas2) >> ]

(* socket.on('disconnect'), first part: the waiting rooms are searched in insertion *)
(* order for an entry of the bound user; the first one found is removed (break).   *)
firstWaitingOf(odId) ==
    LET hits == { i \in 1..Len(waitingRooms) : MapHas(waitingRooms[i][2], odId) }
    IN  IF hits = {} THEN {} ELSE { CHOOSE i \in hits : \A j \in hits : i <= j }

leaveWaiting(odId) ==
    LET first == firstWaitingOf(odId)
    IN  IF first = {} THEN waitingRooms
        ELSE MapSet(waitingRooms, waitingRooms[The(first)][1],
                    MapDelete(waitingRooms[The(first)][2], odId))

leaveWaitingOut(conn, odId) ==
    LET first == firstWaitingOf(odId)
        rid == waitingRooms[The(first)][1]
        meta == MapGet(roomMetadata, rid)
        hostSocketId == MapFindKey(socketToUser, The(meta).hostId)
    IN  IF first = {} \/ meta = {} \/ hostSocketId = {} THEN << >>
        ELSE << Msg(ToSocket(conn, The(hostSocketId)), "waiting-room-update",
                    [ roomId       |-> rid,
                      waitingUsers |-> WaitingList(The(MapGet(leaveWaiting(odId), rid))) ]) >>

(* socket.on('disconnect'), second part: the bound user has a current room *)
leaveCurrentRoom(r, sid, odId, roomId) ==
    LET roomUsers == FunGet(rooms, roomId)
        meta == MapGet(roomMetadata, roomId)
        remaining == SetDelete(The(roomUsers), odId)
        transfer == /\ meta # {} /\ The(meta).hostId = odId
                    /\ roomUsers # {} /\ Len(remaining) > 0
        metas1 == IF transfer
                  THEN transferHost(roomMetadata, roomId, remaining[1])
                  ELSE roomMetadata
        empty == roomUsers # {} /\ Len(remaining) = 0
        waiting == MapGet(r.waitingRooms, roomId)
        rooms1 == IF roomUsers = {} THEN rooms
                  ELSE IF empty THEN FunDelete(rooms, roomId)
                  ELSE FunSet(rooms, roomId, remaining)
        metas2 == IF empty THEN MapDelete(metas1, roomId) ELSE metas1
    IN  [ r EXCEPT
            !.rooms = rooms1,
            !.roomMetadata = metas2,
            !.waitingRooms = IF empty THEN MapDelete(r.waitingRooms, roomId)
                             ELSE r.waitingRooms,
            !.socketToUser = IF empty /\ waiting # {}
                             THEN unbindClosed(socketToUser, r.connected, The(waiting))
                             ELSE socketToUser,
            !.out = r.out
                    \o (IF transfer
                        THEN hostChanged(r.connected, socketToUser, r.waitingRooms, metas1,
                                         roomId, remaining[1])
                        ELSE << >>)
                    \o (IF empty /\ waiting # {}
                        THEN roomClosed(r.connected, roomId, The(waiting))
                        ELSE << >>)
                    \o << Msg(OthersInRoom(r.socketRooms, roomId, sid), "user-disconnected",
                              [ userId |-> odId ]),
                          broadcastPublicRooms(r.connected, rooms1, metas2) >> ]

(* socket.on('disconnect'): socket.io has already removed the session from  *)
(* io.sockets.sockets and from every room when the handler runs.            *)
disconnect(sid) ==
    LET gone == [ Current EXCEPT
                    !.connected = connected \ {sid},
                    !.socketRooms = [ socketRooms EXCEPT ![sid] = {} ] ]
        odId == MapGet(socketToUser, sid)
        roomId == FunGet(userToRoom, The(odId))
        r1 == [ gone EXCEPT
                  !.waitingRooms = leaveWaiting(The(odId)),
                  !.out = leaveWaitingOut(gone.connected, The(odId)) ]
        r2 == IF roomId # {} THEN leaveCurrentRoom(r1, sid, The(odId), The(roomId)) ELSE r1
    IN  IF odId = {} THEN gone
        ELSE [ r2 EXCEPT
                 !.socketToUser = MapDelete(r2.socketToUser, sid),
                 !.userToRoom = FunDelete(userToRoom, The(odId)) ]

(* userToRoom.get(socketToUser.get(socket.id) || '') *)
currentRoom(sid) ==
    LET user == MapGet(socketToUser, sid)
    IN  IF user = {} THEN {} ELSE FunGet(userToRoom, The(user))

(* socket.on('offer'), socket.on('answer'), socket.on('ice-candidate') *)
relay(kind, sid, targetUserId, payload) ==
    IF currentRoom(sid) = {} THEN Current
    ELSE [ Current EXCEPT
             !.out = << Msg(OthersInRoom(socketRooms, The(currentRoom(sid)), sid), kind,
                            [ callerId     |-> The(MapGet(socketToUser, sid)),
                              targetUserId |-> targetUserId,
                              payload      |-> payload ]) >> ]

(* socket.on('chat-message'), 'reaction', 'caption', 'whiteboard-draw', 'whiteboard-clear' *)
fanout(kind, sid, roomId, payload) ==
    [ Current EXCEPT
        !.out = << Msg(OthersInRoom(socketRooms, roomId, sid), kind,
                       [ payload |-> payload ]) >> ]

-----------------------------------------------------------------------------
(* The Peer Session Negotiator: the useWebRTC hook of one client.           *)
(*                                                                          *)
(* A signaling listener and the stream switching effect are async           *)
(* functions whose awaits are operations on RTCPeerConnection objects; a    *)
(* listener is one step here (its awaits complete before the next event is  *)
(* handled).  The statistics pass is modelled read by read: the getStats    *)
(* call of one peer is in flight between statsNext and statsDone.           *)
(*                                                                          *)
(* An RTCPeerConnection is the record of its signalingState, whether it has *)
(* a remote description, the ICE candidates added to it and the tracks of   *)
(* its senders.  A call the connection rejects (InvalidStateError) yields   *)
(* no connection: setLocalDescription(offer) is accepted in stable and      *)
(* have-local-offer, setLocalDescription(answer) in have-remote-offer,      *)
(* setRemoteDescription(answer) in have-local-offer,                        *)
(* setRemoteDescription(offer) in stable and have-remote-offer, and in      *)
(* have-local-offer only where the browser rolls the local offer back       *)
(* implicitly; addIceCandidate is accepted once a remote description is     *)
(* set.                                                                     *)

Clients == 1..NumClients

Candidates == 1..2

Counters == 0..MaxCount

(* The targetUserId 'all' of an offer *)
All == 0

(* MediaStream values for the localStream prop: camera with microphone,     *)
(* screen capture without audio, and a stream without tracks.               *)
Streams ==
    { [ id |-> 1, video |-> TRUE, audio |-> TRUE ],
      [ id |-> 2, video |-> TRUE, audio |-> FALSE ],
      [ id |-> 3, video |-> FALSE, audio |-> FALSE ] }

(* The hook's refs and state after its first render; implicitRollback is   *)
(* the browser's answer to an offer that meets a local offer.               *)
useWebRTC(userId, localStream, isScreenShare, implicitRollback) ==
    [ userId |-> userId,
      implicitRollback |-> implicitRollback,
      localStreamRef |-> localStream,
      isScreenShareRef |-> isScreenShare,
      peersRef |-> << >>,
      peers |-> {},
      remoteStreams |-> {},
      connectionStats |-> << >>,
      peerNames |-> << >>,
      peerScreenShares |-> << >>,
      prevStatsRef |-> << >>,
      created |-> 0,
      sampling |-> {} ]

(* signaling.emit(event, payload) *)
Emit(type, body) == [ type |-> type, body |-> body ]

Done(n, out) == [ n |-> n, out |-> out ]

(* new RTCPeerConnection(ICE_SERVERS) with the local tracks added *)
RTCPeerConnection(n) ==
    [ id |-> n.created + 1,
      signalingState |-> "stable",
      remoteDescription |-> FALSE,
      candidates |-> << >>,
      video |-> IF n.localStreamRef # {} /\ The(n.localStreamRef).video
                THEN The(n.localStreamRef).id ELSE 0,
      audio |-> IF n.localStreamRef # {} /\ The(n.localStreamRef).audio
                THEN The(n.localStreamRef).id ELSE 0 ]

(* await pc.setLocalDescription(offer) *)
setLocalOffer(pc) ==
    IF pc.signalingState \in { "stable", "have-local-offer" }
    THEN { [ pc EXCEPT !.signalingState = "have-local-offer" ] }
    ELSE {}

(* await pc.setRemoteDescription(new RTCSessionDescription(offer)) *)
setRemoteOffer(n, pc) ==
    IF \/ pc.signalingState \in { "stable", "have-remote-offer" }
       \/ pc.signalingState = "have-local-offer" /\ n.implicitRollback
    THEN { [ pc EXCEPT !.signalingState = "have-remote-offer", !.remoteDescription = TRUE ] }
    ELSE {}

(* await pc.createAnswer(); await pc.setLocalDescription(answer) *)
setLocalAnswer(pc) ==
    IF pc.signalingState = "have-remote-offer"
    THEN { [ pc EXCEPT !.signalingState = "stable" ] }
    ELSE {}

(* await pc.setRemoteDescription(new RTCSessionDescription(answer)) *)
setRemoteAnswer(pc) ==
    IF pc.signalingState = "have-local-offer"
    THEN { [ pc EXCEPT !.signalingState = "stable", !.remoteDescription = TRUE ] }
    ELSE {}

(* await pc.addIceCandidate(new RTCIceCandidate(candidate)) *)
addIceCandidate(pc, candidate) ==
    IF pc.remoteDescription
    THEN { [ pc EXCEPT !.candidates = Append(@, candidate) ] }
    ELSE {}

createPeerConnection(n, targetUserId) ==
    IF MapHas(n.peersRef, targetUserId) THEN n
    ELSE [ n EXCEPT !.created = @ + 1,
                    !.peersRef = MapSet(@, targetUserId, RTCPeerConnection(n)),
                    !.peers = MapKeys(n.peersRef) \cup { targetUserId } ]

(* A handler that creates the connection and sends no offer *)
handleUserConnected_NoOffer(n, newUserId) ==
    Done(createPeerConnection(n, newUserId), << >>)

handleUserConnected(n, newUserId) ==
    LET n1 == createPeerConnection(n, newUserId)
        pc == The(MapGet(n1.peersRef, newUserId))
        offered == setLocalOffer(pc)
    IN  IF offered = {} THEN Done(n1, << >>)
        ELSE Done([ n1 EXCEPT !.peersRef = MapSet(@, newUserId, The(offered)) ],
                  << Emit("offer", [ targetUserId |-> newUserId,
                                     userName |-> n.userId,
                                     isScreenShare |-> n.isScreenShareRef ]) >>)

handleOffer(n, callerId, callerName, isScreenShareRemote) ==
    LET n1 == [ n EXCEPT !.peerNames = MapSet(@, callerId, callerName),
                         !.peerScreenShares = MapSet(@, callerId, isScreenShareRemote) ]
        n2 == createPeerConnection(n1, callerId)
        pc == The(MapGet(n2.peersRef, callerId))
        applied == setRemoteOffer(n2, pc)
        answered == IF applied = {} THEN {} ELSE setLocalAnswer(The(applied))
    IN  IF applied = {} THEN Done(n2, << >>)
        ELSE IF answered = {}
             THEN Done([ n2 EXCEPT !.peersRef = MapSet(@, callerId, The(applied)) ], << >>)
             ELSE Done([ n2 EXCEPT !.peersRef = MapSet(@, callerId, The(answered)) ],
                       << Emit("answer", [ targetUserId |-> callerId,
                                           userName |-> n.userId,
                                           isScreenShare |-> n.isScreenShareRef ]) >>)

handleAnswer(n, callerId, callerName, isScreenShareRemote) ==
    LET n1 == [ n EXCEPT !.peerNames = MapSet(@, callerId, callerName),
                         !.peerScreenShares = MapSet(@, callerId, isScreenShareRemote) ]
        pc == MapGet(n1.peersRef, callerId)
        applied == IF pc = {} THEN {} ELSE setRemoteAnswer(The(pc))
    IN  IF applied = {} THEN Done(n1, << >>)
        ELSE Done([ n1 EXCEPT !.peersRef = MapSet(@, callerId, The(applied)) ], << >>)

handleIceCandidate(n, callerId, candidate) ==
    LET pc == MapGet(n.peersRef, callerId)
        added == IF pc = {} THEN {} ELSE addIceCandidate(The(pc), candidate)
    IN  IF added = {} THEN Done(n, << >>)
        ELSE Done([ n EXCEPT !.peersRef = MapSet(@, callerId, The(added)) ], << >>)

(* The position of key k in an ordered map (0 when absent) *)
MapIndex(m, k) ==
    IF MapHas(m, k) THEN CHOOSE i \in 1..Len(m) : m[i][1] = k ELSE 0

(* A Map iterator skips an entry deleted before it is reached: deleting an  *)
(* entry the statistics pass has already visited moves its position back.   *)
iteratorAfterDelete(n, id) ==
    IF n.sampling = {} THEN {}
    ELSE LET pass == The(n.sampling)
         IN  { [ pass EXCEPT !.pos = IF MapIndex(n.peersRef, id) <= pass.pos
                                     THEN pass.pos - 1 ELSE pass.pos ] }

handleUserDisconnected(n, id) ==
    IF ~MapHas(n.peersRef, id) THEN Done(n, << >>)
    ELSE Done([ n EXCEPT !.peersRef = MapDelete(@, id),
                         !.peers = MapKeys(n.peersRef) \ { id },
                         !.remoteStreams = @ \ { id },
                         !.connectionStats = MapDelete(@, id),
                         !.peerNames = MapDelete(@, id),
                         !.peerScreenShares = MapDelete(@, id),
                         !.prevStatsRef = MapDelete(@, id),
                         !.sampling = iteratorAfterDelete(n, id) ],
              << >>)

(* pc.onicecandidate: the connection to targetUserId gathered a candidate *)
onicecandidate(n, targetUserId, candidate) ==
    Done(n, << Emit("ice-candidate", [ targetUserId |-> targetUserId, candidate |-> candidate ]) >>)

(* pc.ontrack: the connection delivers the remote stream of targetUserId *)
ontrack(n, targetUserId) ==
    Done([ n EXCEPT !.remoteStreams = @ \cup { targetUserId } ], << >>)

(* videoSender.replaceTrack / audioSender.replaceTrack on one connection;   *)
(* failed: the replaceTrack calls on this connection reject.                *)
replaceTracks(pc, localStream, failed) ==
    [ pc EXCEPT !.video = IF pc.video # 0 /\ localStream.video /\ ~failed
                          THEN localStream.id ELSE @,
                !.audio = IF pc.audio # 0 /\ localStream.audio /\ ~failed
                          THEN localStream.id ELSE @ ]

(* The forEach callback of the stream switching effect for entry i *)
RECURSIVE switchFrom(_, _, _, _, _)
switchFrom(r, i, localStream, isScreenShare, failing) ==
    IF i > Len(r.n.peersRef) THEN r
    ELSE LET peerId == r.n.peersRef[i][1]
             pc == replaceTracks(r.n.peersRef[i][2], localStream, peerId \in failing)
             offered == setLocalOffer(pc)
             n1 == [ r.n EXCEPT !.peersRef = MapSet(@, peerId, IF offered = {} THEN pc ELSE The(offered)) ]
             out == IF offered = {} THEN r.out
                    ELSE Append(r.out, Emit("offer", [ targetUserId |-> peerId,
                                                       userName |-> r.n.userId,
                                                       isScreenShare |-> isScreenShare ]))
         IN  switchFrom(Done(n1, out), i + 1, localStream, isScreenShare, failing)

(* A stream switch that offers once per track of the new stream *)
streamSwitch_PerTrack(n, localStream, isScreenShare, failing) ==
    LET n1 == [ n EXCEPT !.isScreenShareRef = isScreenShare ]
        r == IF /\ localStream # {}
                /\ n.localStreamRef # {}
                /\ The(localStream).id # The(n.localStreamRef).id
             THEN switchFrom(Done(n1, << >>), 1, The(localStream), isScreenShare, failing)
             ELSE Done(n1, << >>)
        video == IF localStream # {} /\ The(localStream).video THEN r.out ELSE << >>
        audio == IF localStream # {} /\ The(localStream).audio THEN r.out ELSE << >>
    IN  Done([ r.n EXCEPT !.localStreamRef = localStream ], video \o audio)

(* A render with new localStream and isScreenShare props: the effect of     *)
(* lines 34-36, then the stream switching effect.                           *)
streamSwitch(n, localStream, isScreenShare, failing) ==
    LET n1 == [ n EXCEPT !.isScreenShareRef = isScreenShare ]
        r == IF /\ localStream # {}
                /\ n.localStreamRef # {}
                /\ The(localStream).id # The(n.localStreamRef).id
             THEN switchFrom(Done(n1, << >>), 1, The(localStream), isScreenShare, failing)
             ELSE Done(n1, << >>)
    IN  Done([ r.n EXCEPT !.localStreamRef = localStream ], r.out)

(* An RTCStatsReport as the sampler reads it: the cumulative counters of    *)
(* the inbound video report, 0 where there is none.                         *)
Reports ==
    [ inbound : { TRUE }, packetsLost : Counters, packetsReceived : Counters ]
    \cup { [ inbound |-> FALSE, packetsLost |-> 0, packetsReceived |-> 0 ] }

(* (deltaLost / totalPackets) * 100 as the fraction num / den, den > 0 *)
lossPercentage(deltaLost, deltaReceived) ==
    IF deltaLost + deltaReceived > 0
    THEN [ num |-> deltaLost * 100, den |-> deltaLost + deltaReceived ]
    ELSE [ num |-> 0, den |-> 1 ]

NoPrevStats == [ packetsLost |-> 0, packetsReceived |-> 0 ]

(* The interval callback: a pass over peersRef starts *)
statsTick(n) ==
    IF Len(n.peersRef) = 0 THEN Done(n, << >>)
    ELSE Done([ n EXCEPT !.sampling = { [ pos |-> 0, current |-> {}, nextStats |-> << >> ] } ], << >>)

(* The for-of loop moves to the next entry and calls pc.getStats(), or ends *)
(* and publishes the snapshot with setConnectionStats(nextStats).           *)
statsNext(n) ==
    LET pass == The(n.sampling)
    IN  IF pass.pos < Len(n.peersRef)
        THEN Done([ n EXCEPT !.sampling = { [ pass EXCEPT !.pos = @ + 1,
                                                          !.current = { n.peersRef[pass.pos + 1][1] } ] } ],
                  << >>)
        ELSE Done([ n EXCEPT !.connectionStats = pass.nextStats, !.sampling = {} ], << >>)

(* getStats resolved with report *)
statsDone(n, report) ==
    LET pass == The(n.sampling)
        peerId == The(pass.current)
        prevOpt == MapGet(n.prevStatsRef, peerId)
        prev == IF prevOpt = {} THEN NoPrevStats ELSE The(prevOpt)
        deltaLost == report.packetsLost - prev.packetsLost
        deltaReceived == report.packetsReceived - prev.packetsReceived
    IN  Done([ n EXCEPT
                 !.prevStatsRef = MapSet(@, peerId, [ packetsLost |-> report.packetsLost,
                                                      packetsReceived |-> report.packetsReceived ]),
                 !.sampling = { [ pass EXCEPT
                     !.current = {},
                     !.nextStats = MapSet(@, peerId,
                         [ packetLossPercentage |-> lossPercentage(deltaLost, deltaReceived),
                           packetsLost |-> report.packetsLost ]) ] } ],
             << >>)

(* A failed read that ends the pass *)
statsFailed_Aborts(n) ==
    Done([ n EXCEPT !.sampling = {} ], << >>)

(* getStats rejected: the catch block logs and the loop goes on *)
statsFailed(n) ==
    LET pass == The(n.sampling)
    IN  Done([ n EXCEPT !.sampling = { [ pass EXCEPT !.current = {} ] } ], << >>)

(* The signaling listeners of the main effect, with their filters *)
on_user_connected(n, data) ==
    IF data # n.userId THEN handleUserConnected(n, data) ELSE Done(n, << >>)

on_offer(n, payload) ==
    IF payload.targetUserId \in { n.userId, All }
    THEN handleOffer(n, payload.callerId, payload.callerName, payload.isScreenShare)
    ELSE Done(n, << >>)

on_answer(n, payload) ==
    IF payload.targetUserId = n.userId
    THEN handleAnswer(n, payload.callerId, payload.callerName, payload.isScreenShare)
    ELSE Done(n, << >>)

on_ice_candidate(n, payload) ==
    IF payload.targetUserId = n.userId
    THEN handleIceCandidate(n, payload.callerId, payload.candidate)
    ELSE Done(n, << >>)

on_user_disconnected(n, id) == handleUserDisconnected(n, id)

(* The main effect runs again (roomId, userId or a handler changed): its    *)
(* cleanup closes every connection, then it joins the room again.           *)
resubscribe(n) ==
    Done([ n EXCEPT !.peersRef = << >>, !.prevStatsRef = << >>,
                    !.sampling = IF n.sampling = {} THEN {}
                                 ELSE { [ The(n.sampling) EXCEPT !.pos = 0 ] } ],
         << Emit("join-room", [ userId |-> n.userId ]) >>)

-----------------------------------------------------------------------------
(* Events.  User, room and session identifiers are opaque strings that the  *)
(* handlers only compare for equality, so identifiers that occur nowhere in *)
(* the state are interchangeable: an event draws its identifiers from those *)
(* in use plus the least one not in use.                                    *)

Min(S) == CHOOSE x \in S : \A y \in S : x <= y

UsedUsers ==
    { socketToUser[i][2] : i \in 1..Len(socketToUser) }
    \cup DOMAIN userToRoom
    \cup UNION { SetElems(rooms[r]) : r \in DOMAIN rooms }
    \cup { roomMetadata[i][2].hostId : i \in 1..Len(roomMetadata) }
    \cup UNION { MapKeys(waitingRooms[i][2]) : i \in 1..Len(waitingRooms) }

UsedRooms ==
    MapKeys(roomMetadata) \cup DOMAIN rooms \cup MapKeys(waitingRooms)
    \cup { userToRoom[u] : u \in DOMAIN userToRoom }
    \cup UNION { socketRooms[s] : s \in Sockets }

UsedSockets ==
    MapKeys(socketToUser)
    \cup { s \in Sockets : socketRooms[s] # {} }
    \cup UNION { { waitingRooms[i][2][j][2].socketId : j \in 1..Len(waitingRooms[i][2]) } :
                 i \in 1..Len(waitingRooms) }

UserChoices ==
    UsedUsers \cup (IF Users \ UsedUsers = {} THEN {} ELSE { Min(Users \ UsedUsers) })

RoomChoices ==
    UsedRooms \cup (IF RoomIds \ UsedRooms = {} THEN {} ELSE { Min(RoomIds \ UsedRooms) })

SocketChoices ==
    (connected \cap UsedSockets)
    \cup (IF connected \ UsedSockets = {} THEN {} ELSE { Min(connected \ UsedSockets) })

(* join-room reads its config argument only when it creates the room; an   *)
(* absent config reads as isPublic = false, waitingRoom = false.           *)
NoConfig == [ isPublic |-> FALSE, waitingRoom |-> FALSE ]

ConfigChoices(roomId) == IF MapHas(roomMetadata, roomId) THEN { NoConfig } ELSE Configs

Payloads == { "p" }

RelayKinds == { "offer", "answer", "ice-candidate" }

FanoutKinds == { "chat-message", "reaction", "caption", "whiteboard-draw", "whiteboard-clear" }

(* The server has started and NumSockets sessions have connected; the       *)
(* connection handler only registers the listeners below.                   *)
ServerInit ==
    /\ connected = Sockets
    /\ socketRooms = [ s \in Sockets |-> {} ]
    /\ rooms = EmptyFun
    /\ roomMetadata = << >>
    /\ waitingRooms = << >>
    /\ socketToUser = << >>
    /\ userToRoom = EmptyFun
    /\ fault = FALSE
    /\ events = 0

(* No client has mounted the hook with a room yet *)
NoSignals == [ link \in Clients \X Clients |-> << >> ]

Init ==
    /\ ServerInit
    /\ negotiator = [ c \in Clients |-> useWebRTC(c, {}, FALSE, FALSE) ]
    /\ signals = NoSignals
    /\ steps = 0

Live(sid) == ~fault /\ sid \in connected

GetRooms(sid) ==
    /\ Live(sid)
    /\ Apply(get_rooms(sid))

JoinRoom(sid, roomId, odId, config) ==
    /\ Live(sid)
    /\ Apply(join_room(sid, roomId, odId, config))

AdmitUser(sid, roomId, odId) ==
    /\ Live(sid)
    /\ Apply(admit_user(sid, roomId, odId))

DenyUser(sid, roomId, odId) ==
    /\ Live(sid)
    /\ Apply(deny_user(sid, roomId, odId))

ToggleLock(sid, roomId) ==
    /\ Live(sid)
    /\ Apply(toggle_lock(sid, roomId))

ToggleWaitingRoom(sid, roomId) ==
    /\ Live(sid)
    /\ Apply(toggle_waiting_room(sid, roomId))

Relay(kind, sid, targetUserId, payload) ==
    /\ Live(sid)
    /\ Apply(relay(kind, sid, targetUserId, payload))

Fanout(kind, sid, roomId, payload) ==
    /\ Live(sid)
    /\ Apply(fanout(kind, sid, roomId, payload))

LeaveRoom(sid, roomId, userId) ==
    /\ Live(sid)
    /\ Apply(leave_room(sid, roomId, userId))

Disconnect(sid) ==
    /\ Live(sid)
    /\ Apply(disconnect(sid))

Next ==
    \/ \E sid \in SocketChoices : GetRooms(sid)
    \/ \E sid \in SocketChoices, roomId \in RoomChoices, odId \in UserChoices :
           \E config \in ConfigChoices(roomId) : JoinRoom(sid, roomId, odId, config)
    \/ \E sid \in SocketChoices, roomId \in RoomChoices, odId \in UserChoices :
           AdmitUser(sid, roomId, odId)
    \/ \E sid \in SocketChoices, roomId \in RoomChoices, odId \in UserChoices :
           DenyUser(sid, roomId, odId)
    \/ \E sid \in SocketChoices, roomId \in RoomChoices : ToggleLock(sid, roomId)
    \/ \E sid \in SocketChoices, roomId \in RoomChoices : ToggleWaitingRoom(sid, roomId)
    \/ \E kind \in RelayKinds, sid \in SocketChoices, targetUserId \in UserChoices,
          payload \in Payloads :
           Relay(kind, sid, targetUserId, payload)
    \/ \E kind \in FanoutKinds, sid \in SocketChoices, roomId \in RoomChoices,
          payload \in Payloads :
           Fanout(kind, sid, roomId, payload)
    \/ \E sid \in SocketChoices, roomId \in RoomChoices, userId \in UserChoices :
           LeaveRoom(sid, roomId, userId)
    \/ \E sid \in SocketChoices : Disconnect(sid)

Spec == Init /\ [][Next]_vars

-----------------------------------------------------------------------------
(* Properties.  A property about what an event does is stated over every    *)
(* reachable state and every argument the event can carry there: the        *)
(* handler's result is evaluated on the state as the event finds it.        *)

Members(rs, roomId) == IF roomId \in DOMAIN rs THEN SetElems(rs[roomId]) ELSE {}

HostOf(metas, roomId) == { m.hostId : m \in MapGet(metas, roomId) }

WaitingOf(wrs, roomId) ==
    IF MapHas(wrs, roomId) THEN The(MapGet(wrs, roomId)) ELSE << >>

(* The authority state a result leaves behind equals the state before the event. *)
SameState(r) == [ r EXCEPT !.out = << >> ] = Current

Emitted(r, type) == { i \in 1..Len(r.out) : r.out[i].type = type }

KnownRooms == DOMAIN rooms \cup MapKeys(roomMetadata) \cup MapKeys(waitingRooms)

(* C1: every room present in authority state (member sets, metadata, waiting *)
(* lists) has at least one member; a room's member set, metadata and waiting *)
(* list exist together or not at all.                                        *)
C1_NoEmptyRoom ==
    \A roomId \in KnownRooms :
        /\ roomId \in DOMAIN rooms
        /\ Len(rooms[roomId]) >= 1
        /\ MapHas(roomMetadata, roomId)
        /\ MapHas(waitingRooms, roomId)

(* C1 witness: a room with a single member and a non-empty waiting list, whose *)
(* last member's leave-room removes member set, metadata and waiting list.     *)
C1_Witness ==
    \E sid \in connected, roomId \in DOMAIN rooms, userId \in Users :
        /\ ~fault
        /\ SetElems(rooms[roomId]) = {userId}
        /\ Len(WaitingOf(waitingRooms, roomId)) > 0
        /\ LET r == leave_room(sid, roomId, userId)
           IN  /\ roomId \notin DOMAIN r.rooms
               /\ ~MapHas(r.roomMetadata, roomId)
               /\ ~MapHas(r.waitingRooms, roomId)

(* C2: each existing room has one host identifier and it names a current member. *)
C2_HostIsMember ==
    \A roomId \in KnownRooms :
        /\ Cardinality(HostOf(roomMetadata, roomId)) = 1
        /\ HostOf(roomMetadata, roomId) \subseteq Members(rooms, roomId)

(* C2 witness: the host of a room with other members leaves or disconnects, and *)
(* the room's host afterwards is another, remaining member.                     *)
C2_Witness ==
    \E sid \in connected, roomId \in DOMAIN rooms :
        /\ ~fault
        /\ Len(rooms[roomId]) >= 2
        /\ MapGet(socketToUser, sid) = HostOf(roomMetadata, roomId)
        /\ FunGet(userToRoom, The(HostOf(roomMetadata, roomId))) = {roomId}
        /\ LET l == leave_room(sid, roomId, The(HostOf(roomMetadata, roomId)))
               d == disconnect(sid)
           IN  /\ HostOf(l.roomMetadata, roomId) # HostOf(roomMetadata, roomId)
               /\ HostOf(l.roomMetadata, roomId) \subseteq Members(l.rooms, roomId)
               /\ HostOf(d.roomMetadata, roomId) # HostOf(roomMetadata, roomId)
               /\ HostOf(d.roomMetadata, roomId) \subseteq Members(d.rooms, roomId)

(* C3: for an existing room, admit-user, deny-user, toggle-lock and            *)
(* toggle-waiting-room from a session whose bound user is not the room's host  *)
(* (or that has no binding) change no authority state and emit nothing.        *)
Silent(r) == SameState(r) /\ Len(r.out) = 0

C3_NonHostIgnored ==
    ~fault =>
    \A sid \in connected, roomId \in MapKeys(roomMetadata) :
        MapGet(socketToUser, sid) # HostOf(roomMetadata, roomId) =>
            /\ Silent(toggle_lock(sid, roomId))
            /\ Silent(toggle_waiting_room(sid, roomId))
            /\ \A odId \in Users :
                   /\ Silent(admit_user(sid, roomId, odId))
                   /\ Silent(deny_user(sid, roomId, odId))

(* C3 witness: a bound non-host session and an unbound session, both connected, *)
(* and a room with a waiting user whom the host could admit or deny.            *)
C3_Witness ==
    \E sid, other \in connected, roomId \in MapKeys(roomMetadata), odId \in Users :
        /\ ~fault
        /\ MapGet(socketToUser, sid) # {}
        /\ MapGet(socketToUser, sid) # HostOf(roomMetadata, roomId)
        /\ MapGet(socketToUser, other) = {}
        /\ WaitingUserOf(waitingRooms, roomId, odId) # {}
        /\ Silent(admit_user(sid, roomId, odId))
        /\ Silent(deny_user(other, roomId, odId))
        /\ Silent(toggle_lock(sid, roomId))
        /\ Silent(toggle_waiting_room(other, roomId))

(* C4: no client event is fatal to the coordinator. *)
C4_NoFatalEvent == fault = FALSE

(* C5: join-room for an existing locked room, by any user, sends room-locked to *)
(* the requester only and changes no authority state; no directory broadcast.   *)
C5_LockedJoinRejected ==
    ~fault =>
    \A sid \in connected, roomId \in MapKeys(roomMetadata), odId \in Users, config \in Configs :
        The(MapGet(roomMetadata, roomId)).isLocked =>
            LET r == join_room(sid, roomId, odId, config)
            IN  /\ SameState(r)
                /\ Len(r.out) = 1
                /\ r.out[1].type = "room-locked"
                /\ r.out[1].to = {sid}
                /\ r.out[1].body.roomId = roomId

(* C5 witness: a locked room, its host and a non-member both asking to join. *)
C5_Witness ==
    \E sid \in connected, roomId \in MapKeys(roomMetadata), odId \in Users :
        /\ ~fault
        /\ The(MapGet(roomMetadata, roomId)).isLocked
        /\ odId \notin Members(rooms, roomId)
        /\ join_room(sid, roomId, odId, NoConfig).out[1].type = "room-locked"
        /\ join_room(sid, roomId, The(HostOf(roomMetadata, roomId)), NoConfig).out[1].type
               = "room-locked"

(* The arguments of a join-room that takes the waiting-room branch: the room  *)
(* exists, is unlocked, has the waiting room enabled, and odId is not its host. *)
WaitingJoin(roomId, odId) ==
    /\ MapHas(roomMetadata, roomId)
    /\ ~The(MapGet(roomMetadata, roomId)).isLocked
    /\ The(MapGet(roomMetadata, roomId)).waitingRoom
    /\ The(MapGet(roomMetadata, roomId)).hostId # odId

(* The session has not been used under another user identifier: it is unbound *)
(* or bound to odId.                                                          *)
OwnSession(sid, odId) == MapGet(socketToUser, sid) \subseteq {odId}

(* The host's decision on a waiting user: the session is bound to the room's *)
(* host and odId has a Waiting Entry in the room.                            *)
HostDecides(sid, roomId, odId) ==
    /\ MapHas(roomMetadata, roomId)
    /\ MapGet(socketToUser, sid) = HostOf(roomMetadata, roomId)
    /\ WaitingUserOf(waitingRooms, roomId, odId) # {}

(* The sessions of the room's members: in the room's delivery group and bound to *)
(* a member whose current room it is.                                           *)
MemberSessions(roomId) ==
    { s \in InRoom(socketRooms, roomId) :
        \E u \in Members(rooms, roomId) :
            MapGet(socketToUser, s) = {u} /\ FunGet(userToRoom, u) = {roomId} }

(* 1-based rank of odId in a waiting list, in arrival order *)
Rank(waiting, odId) == CHOOSE j \in 1..Len(waiting) : waiting[j][1] = odId

(* C6: a join-room taking the waiting-room branch creates or updates the     *)
(* requester's Waiting Entry, sends waiting-room to the requester and        *)
(* waiting-room-update with the full waiting list to the host's session, and *)
(* leaves the member sets unchanged (no room-joined, no user-connected).     *)
(* The requesting session is one of the requester's own: unbound, or bound   *)
(* to odId already.                                                          *)
C6_WaitingJoinNotifiesHost ==
    ~fault =>
    \A sid \in connected, roomId \in RoomIds, odId \in Users, config \in Configs :
        WaitingJoin(roomId, odId) /\ OwnSession(sid, odId) =>
            LET r == join_room(sid, roomId, odId, config)
            IN  /\ WaitingUserOf(r.waitingRooms, roomId, odId)
                       = { [ odId |-> odId, socketId |-> sid ] }
                /\ r.rooms = rooms
                /\ \E i \in Emitted(r, "waiting-room") : r.out[i].to = {sid}
                /\ \E i \in Emitted(r, "waiting-room-update") :
                       /\ r.out[i].to # {}
                       /\ r.out[i].body.waitingUsers
                              = WaitingList(WaitingOf(r.waitingRooms, roomId))
                /\ Emitted(r, "room-joined") = {}
                /\ Emitted(r, "user-connected") = {}

(* C7: the position in the waiting-room message is the requester's 1-based *)
(* rank, in arrival order, among the room's Waiting Entries.               *)
C7_PositionIsRank ==
    ~fault =>
    \A sid \in connected, roomId \in RoomIds, odId \in Users, config \in Configs :
        WaitingJoin(roomId, odId) /\ OwnSession(sid, odId) =>
            LET r == join_room(sid, roomId, odId, config)
            IN  \A i \in Emitted(r, "waiting-room") :
                    r.out[i].body.position = Rank(WaitingOf(r.waitingRooms, roomId), odId)

(* C8: admit-user by the host for a waiting user moves the user from the     *)
(* waiting list to the member set, sends admitted with the settings to the   *)
(* user's session, user-connected to every pre-existing member, the reduced  *)
(* waiting list to the host, and republishes the directory.                  *)
C8_AdmitMovesUser ==
    ~fault =>
    \A sid \in connected, roomId \in RoomIds, odId \in Users :
        HostDecides(sid, roomId, odId) =>
            LET r == admit_user(sid, roomId, odId)
                target == The(WaitingUserOf(waitingRooms, roomId, odId)).socketId
            IN  /\ WaitingUserOf(r.waitingRooms, roomId, odId) = {}
                /\ odId \in Members(r.rooms, roomId)
                /\ \E i \in Emitted(r, "admitted") :
                       /\ r.out[i].to = {target}
                       /\ r.out[i].body.settings = getRoomSettings(roomMetadata, roomId)
                /\ \A s \in MemberSessions(roomId) \ {target} :
                       \E i \in Emitted(r, "user-connected") :
                           s \in r.out[i].to /\ r.out[i].body.userId = odId
                /\ \E i \in Emitted(r, "waiting-room-update") :
                       /\ r.out[i].to = {sid}
                       /\ r.out[i].body.waitingUsers
                              = WaitingList(MapDelete(WaitingOf(waitingRooms, roomId), odId))
                /\ \E i \in Emitted(r, "rooms-update") :
                       /\ r.out[i].to = connected
                       /\ r.out[i].body.rooms = getPublicRooms(r.rooms, r.roomMetadata)

(* C9: deny-user by the host for a waiting user removes exactly that Waiting *)
(* Entry, sends denied to that user's session, and changes no member set.    *)
C9_DenyRemovesEntry ==
    ~fault =>
    \A sid \in connected, roomId \in RoomIds, odId \in Users :
        HostDecides(sid, roomId, odId) =>
            LET r == deny_user(sid, roomId, odId)
                target == The(WaitingUserOf(waitingRooms, roomId, odId)).socketId
            IN  /\ r.waitingRooms = MapSet(waitingRooms, roomId,
                                           MapDelete(WaitingOf(waitingRooms, roomId), odId))
                /\ \E i \in Emitted(r, "denied") : r.out[i].to = {target}
                /\ r.rooms = rooms

(* C10: after leave-room{roomId, userId}, userId has no Waiting Entry in roomId. *)
C10_LeaveClearsWaiting ==
    ~fault =>
    \A sid \in connected, roomId \in RoomIds, userId \in Users :
        WaitingUserOf(leave_room(sid, roomId, userId).waitingRooms, roomId, userId) = {}

(* The sessions that Waiting Entries refer to *)
WaitingSessions(wrs) ==
    UNION { { wrs[i][2][j][2].socketId : j \in 1..Len(wrs[i][2]) } : i \in 1..Len(wrs) }

(* C11: after a session's disconnect is processed, no Waiting Entry in any *)
(* room refers to that session.                                            *)
C11_DisconnectClearsWaiting ==
    ~fault =>
    \A sid \in connected : sid \notin WaitingSessions(disconnect(sid).waitingRooms)

-----------------------------------------------------------------------------
(* Runs in which each user identifier is used by a single session: session *)
(* s joins and leaves as user s and under no other identifier.  The host   *)
(* names any user in admit-user and deny-user.                             *)

OwnIdNext ==
    \/ \E sid \in SocketChoices : GetRooms(sid)
    \/ \E sid \in SocketChoices, roomId \in RoomChoices :
           \E config \in ConfigChoices(roomId) : JoinRoom(sid, roomId, sid, config)
    \/ \E sid \in SocketChoices, roomId \in RoomChoices, odId \in UserChoices :
           AdmitUser(sid, roomId, odId)
    \/ \E sid \in SocketChoices, roomId \in RoomChoices, odId \in UserChoices :
           DenyUser(sid, roomId, odId)
    \/ \E sid \in SocketChoices, roomId \in RoomChoices : ToggleLock(sid, roomId)
    \/ \E sid \in SocketChoices, roomId \in RoomChoices : ToggleWaitingRoom(sid, roomId)
    \/ \E kind \in RelayKinds, sid \in SocketChoices, targetUserId \in UserChoices,
          payload \in Payloads :
           Relay(kind, sid, targetUserId, payload)
    \/ \E kind \in FanoutKinds, sid \in SocketChoices, roomId \in RoomChoices,
          payload \in Payloads :
           Fanout(kind, sid, roomId, payload)
    \/ \E sid \in SocketChoices, roomId \in RoomChoices : LeaveRoom(sid, roomId, sid)
    \/ \E sid \in SocketChoices : Disconnect(sid)

OwnIdSpec == Init /\ [][OwnIdNext]_vars

(* C12: in runs where each user identifier is used by a single session,   *)
(* after that session's disconnect the user is a member of no room and no *)
(* Session Binding for it remains.                                        *)
C12_DisconnectRemovesUser ==
    ~fault =>
    \A sid \in connected :
        LET r == disconnect(sid)
        IN  /\ \A roomId \in DOMAIN r.rooms : sid \notin Members(r.rooms, roomId)
            /\ MapFindKey(r.socketToUser, sid) = {}
            /\ ~MapHas(r.socketToUser, sid)

-----------------------------------------------------------------------------
(* The rooms whose member set holds the user *)
RoomsOf(rs, userId) == { roomId \in DOMAIN rs : userId \in Members(rs, roomId) }

(* C13: each user identifier is a member of at most one room, and a member of *)
(* room r has r as its current-room binding.                                  *)
C13_OneRoomPerUser ==
    \A userId \in Users :
        /\ Cardinality(RoomsOf(rooms, userId)) <= 1
        /\ \A roomId \in RoomsOf(rooms, userId) : FunGet(userToRoom, userId) = {roomId}

-----------------------------------------------------------------------------
(* C14: a Waiting Entry exists only under a room whose waiting-room flag is *)
(* currently enabled.                                                       *)
C14_WaitingOnlyWhenEnabled ==
    \A roomId \in MapKeys(waitingRooms) :
        Len(WaitingOf(waitingRooms, roomId)) > 0 =>
            /\ MapHas(roomMetadata, roomId)
            /\ The(MapGet(roomMetadata, roomId)).waitingRoom

-----------------------------------------------------------------------------
(* C15: no user identifier is both in a room's member set and in that same *)
(* room's waiting list.                                                    *)
C15_MemberNotWaiting ==
    \A roomId \in MapKeys(waitingRooms) :
        Members(rooms, roomId) \cap MapKeys(WaitingOf(waitingRooms, roomId)) = {}

-----------------------------------------------------------------------------
(* The connected sessions bound to the user *)
SessionsOf(userId) == { s \in connected : MapGet(socketToUser, s) = {userId} }

(* The arguments of a join-room that joins an existing room directly as a new *)
(* member: the room is unlocked, its waiting room is off, odId is not its     *)
(* host and not yet a member.                                                 *)
DirectJoin(roomId, odId) ==
    /\ MapHas(roomMetadata, roomId)
    /\ ~The(MapGet(roomMetadata, roomId)).isLocked
    /\ ~The(MapGet(roomMetadata, roomId)).waitingRoom
    /\ The(MapGet(roomMetadata, roomId)).hostId # odId
    /\ odId \notin Members(rooms, roomId)

(* C16, creation: join-room for a room that does not exist creates it with   *)
(* the joining user as host and sole member, flags from the config, unlocked, *)
(* and answers room-joined{isHost:true}.                                      *)
C16_Creates(sid, roomId, odId, config) ==
    LET r == join_room(sid, roomId, odId, config)
    IN  /\ Members(r.rooms, roomId) = {odId}
        /\ MapGet(r.roomMetadata, roomId)
               = { [ isPublic    |-> config.isPublic,
                     hostId      |-> odId,
                     isLocked    |-> FALSE,
                     waitingRoom |-> config.waitingRoom ] }
        /\ \E i \in Emitted(r, "room-joined") :
               /\ r.out[i].to = {sid}
               /\ r.out[i].body.isHost

(* C16, later join: join-room by a different user to the room (unlocked,      *)
(* waiting room off) adds the user to the member set, sends user-connected    *)
(* to every existing member's session and not to the joiner, and answers      *)
(* room-joined{isHost:false} with the current settings.                       *)
C16_Joins(sid, roomId, odId, config) ==
    LET r == join_room(sid, roomId, odId, config)
    IN  /\ Members(r.rooms, roomId) = Members(rooms, roomId) \cup {odId}
        /\ \E i \in Emitted(r, "user-connected") :
               /\ r.out[i].body.userId = odId
               /\ \A u \in Members(rooms, roomId) :
                      SessionsOf(u) \ {sid} # {} =>
                          (SessionsOf(u) \ {sid}) \cap r.out[i].to # {}
        /\ \A i \in Emitted(r, "user-connected") : sid \notin r.out[i].to
        /\ \E i \in Emitted(r, "room-joined") :
               /\ r.out[i].to = {sid}
               /\ ~r.out[i].body.isHost
               /\ r.out[i].body.settings = getRoomSettings(roomMetadata, roomId)

(* C16: join-room creates an absent room around the joining user, and adds a *)
(* different user to an existing unlocked room without waiting room, telling *)
(* the existing members.                                                     *)
C16_JoinCreatesOrAdds ==
    ~fault =>
    \A sid \in connected, roomId \in RoomIds, odId \in Users, config \in Configs :
        /\ ~MapHas(roomMetadata, roomId) => C16_Creates(sid, roomId, odId, config)
        /\ DirectJoin(roomId, odId) /\ OwnSession(sid, odId) =>
               C16_Joins(sid, roomId, odId, config)

-----------------------------------------------------------------------------
(* The session is bound to the host of the room, the host is a member whose *)
(* current room it is, and other members remain when the host goes.         *)
HostWithOthers(sid, roomId) ==
    /\ MapHas(roomMetadata, roomId)
    /\ MapGet(socketToUser, sid) = HostOf(roomMetadata, roomId)
    /\ HostOf(roomMetadata, roomId) \subseteq Members(rooms, roomId)
    /\ FunGet(userToRoom, The(HostOf(roomMetadata, roomId))) = {roomId}
    /\ Cardinality(Members(rooms, roomId)) >= 2

(* The sessions that receive host-changed{isHost:true} in a result *)
NewHostSessions(r) ==
    UNION { r.out[i].to : i \in { j \in Emitted(r, "host-changed") : r.out[j].body.isHost } }

(* The room's host after the event is one remaining member, other than the *)
(* old host, and host-changed reaches that member and nobody else.         *)
HostHandedOver(r, roomId) ==
    /\ Cardinality(HostOf(r.roomMetadata, roomId)) = 1
    /\ HostOf(r.roomMetadata, roomId) # HostOf(roomMetadata, roomId)
    /\ HostOf(r.roomMetadata, roomId) \subseteq Members(r.rooms, roomId)
    /\ NewHostSessions(r) # {}
    /\ \A s \in NewHostSessions(r) : MapGet(r.socketToUser, s) = HostOf(r.roomMetadata, roomId)

(* C17: when the host leaves or disconnects from a room in which other       *)
(* members remain, exactly one remaining member receives host-changed, and   *)
(* the room's host field is set to that member in the same event.            *)
C17_HostHandover ==
    ~fault =>
    \A sid \in connected, roomId \in RoomIds :
        HostWithOthers(sid, roomId) =>
            /\ HostHandedOver(leave_room(sid, roomId, The(HostOf(roomMetadata, roomId))), roomId)
            /\ HostHandedOver(disconnect(sid), roomId)

-----------------------------------------------------------------------------
(* The room is gone after the event: no member set, no metadata, no waiting *)
(* list, not in the directory; and every Waiting Entry the room had whose   *)
(* session is still connected was sent room-closed.                         *)
RoomDeleted(r, roomId) ==
    /\ roomId \notin DOMAIN r.rooms
    /\ ~MapHas(r.roomMetadata, roomId)
    /\ ~MapHas(r.waitingRooms, roomId)
    /\ \A i \in 1..Len(getPublicRooms(r.rooms, r.roomMetadata)) :
           getPublicRooms(r.rooms, r.roomMetadata)[i].roomId # roomId
    /\ \A j \in 1..Len(WaitingOf(waitingRooms, roomId)) :
           LET ws == WaitingOf(waitingRooms, roomId)[j][2].socketId
           IN  ws \in r.connected =>
                   \E i \in Emitted(r, "room-closed") :
                       r.out[i].to = {ws} /\ r.out[i].body.roomId = roomId

(* The session is bound to the only member of the room *)
LastMember(sid, roomId) ==
    /\ roomId \in DOMAIN rooms
    /\ Cardinality(Members(rooms, roomId)) = 1
    /\ MapGet(socketToUser, sid) = Members(rooms, roomId)

(* C18: when the last member of a room leaves or disconnects, the room is   *)
(* deleted in that event: it is not listed any more, its waiting list is    *)
(* gone and the users still waiting for it receive room-closed.             *)
C18_LastMemberClosesRoom ==
    ~fault =>
    \A sid \in connected, roomId \in RoomIds :
        LastMember(sid, roomId) =>
            /\ RoomDeleted(leave_room(sid, roomId, The(MapGet(socketToUser, sid))), roomId)
            /\ RoomDeleted(disconnect(sid), roomId)

-----------------------------------------------------------------------------
(* The rooms that are public and have at least one member *)
VisibleRooms ==
    { roomId \in MapKeys(roomMetadata) :
        /\ The(MapGet(roomMetadata, roomId)).isPublic
        /\ Cardinality(Members(rooms, roomId)) >= 1 }

(* C19: the get-rooms reply goes to the requester and lists exactly the rooms *)
(* that are public and have at least one member, once each, with the room's   *)
(* current member count, lock flag and waiting-room flag; handling get-rooms  *)
(* changes no authority state.                                                *)
C19_DirectoryReply ==
    ~fault =>
    \A sid \in connected :
        LET r == get_rooms(sid)
            list == r.out[1].body.rooms
        IN  /\ SameState(r)
            /\ Len(r.out) = 1
            /\ r.out[1].type = "rooms-update"
            /\ r.out[1].to = {sid}
            /\ { list[i].roomId : i \in 1..Len(list) } = VisibleRooms
            /\ Len(list) = Cardinality(VisibleRooms)
            /\ \A i \in 1..Len(list) :
                   /\ list[i].count = Cardinality(Members(rooms, list[i].roomId))
                   /\ list[i].isLocked = The(MapGet(roomMetadata, list[i].roomId)).isLocked
                   /\ list[i].waitingRoom = The(MapGet(roomMetadata, list[i].roomId)).waitingRoom

(* C19 witness: a public room with two members and a private room with a *)
(* member exist, and the reply lists the public room only.               *)
C19_Witness ==
    \E sid \in connected, pub \in MapKeys(roomMetadata), priv \in MapKeys(roomMetadata) :
        /\ ~fault
        /\ The(MapGet(roomMetadata, pub)).isPublic
        /\ Cardinality(Members(rooms, pub)) = 2
        /\ ~The(MapGet(roomMetadata, priv)).isPublic
        /\ Cardinality(Members(rooms, priv)) >= 1
        /\ Len(get_rooms(sid).out[1].body.rooms) = 1
        /\ get_rooms(sid).out[1].body.rooms[1].roomId = pub
        /\ get_rooms(sid).out[1].body.rooms[1].count = 2

-----------------------------------------------------------------------------
(* The session is bound to the host of the existing room *)
IsHost(sid, roomId) ==
    /\ MapHas(roomMetadata, roomId)
    /\ MapGet(socketToUser, sid) = HostOf(roomMetadata, roomId)

(* The result changes the room's metadata to meta and nothing else of the *)
(* authority state.                                                       *)
OnlyMetaChanged(r, roomId, meta) ==
    [ r EXCEPT !.out = << >> ] = [ Current EXCEPT !.roomMetadata = MapSet(roomMetadata, roomId, meta) ]

(* Every current member of the room that has a connected session receives *)
(* room-settings-update with the room's settings after the event, and the *)
(* directory is republished to every connected session.                   *)
SettingsAnnounced(r, roomId) ==
    /\ \E i \in Emitted(r, "room-settings-update") :
           /\ r.out[i].body = getRoomSettings(r.roomMetadata, roomId)
           /\ \A u \in Members(rooms, roomId) :
                  SessionsOf(u) # {} => SessionsOf(u) \cap r.out[i].to # {}
    /\ \E i \in Emitted(r, "rooms-update") :
           /\ r.out[i].to = connected
           /\ r.out[i].body.rooms = getPublicRooms(r.rooms, r.roomMetadata)

(* C20: toggle-lock (toggle-waiting-room) by the host flips exactly that flag *)
(* and leaves the other flag, the host, the member sets and the waiting lists *)
(* unchanged; every current member receives room-settings-update with the new *)
(* settings and the directory is republished.                                 *)
C20_ToggleFlipsFlag ==
    ~fault =>
    \A sid \in connected, roomId \in RoomIds :
        IsHost(sid, roomId) =>
            LET meta == The(MapGet(roomMetadata, roomId))
                l == toggle_lock(sid, roomId)
                w == toggle_waiting_room(sid, roomId)
            IN  /\ OnlyMetaChanged(l, roomId, [ meta EXCEPT !.isLocked = ~meta.isLocked ])
                /\ OnlyMetaChanged(w, roomId, [ meta EXCEPT !.waitingRoom = ~meta.waitingRoom ])
                /\ SettingsAnnounced(l, roomId)
                /\ SettingsAnnounced(w, roomId)

-----------------------------------------------------------------------------
(* The relay reaches the room: one message of the given kind, re-addressed  *)
(* with the sender's bound user as caller and target and payload unchanged, *)
(* received by every other member that has a connected session and by no    *)
(* session that is bound to a user outside the room.                        *)
RelayedTo(r, kind, sid, roomId, targetUserId, payload) ==
    /\ Len(r.out) = 1
    /\ r.out[1].type = kind
    /\ r.out[1].body = [ callerId     |-> The(MapGet(socketToUser, sid)),
                         targetUserId |-> targetUserId,
                         payload      |-> payload ]
    /\ sid \notin r.out[1].to
    /\ \A u \in Members(rooms, roomId) \ MapGet(socketToUser, sid) :
           SessionsOf(u) # {} => SessionsOf(u) \cap r.out[1].to # {}
    /\ \A s \in r.out[1].to : MapGet(socketToUser, s) \subseteq Members(rooms, roomId)

(* C21: an offer, answer or ice-candidate is delivered to every other member *)
(* session of the sender's current room and to no session outside it, with   *)
(* callerId the sender's bound user; a sender without a current room         *)
(* delivers nothing; the relay changes no authority state.                   *)
C21_RelayWithinRoom ==
    ~fault =>
    \A kind \in RelayKinds, sid \in connected, targetUserId \in Users, payload \in Payloads :
        LET r == relay(kind, sid, targetUserId, payload)
        IN  /\ SameState(r)
            /\ currentRoom(sid) = {} => Len(r.out) = 0
            /\ currentRoom(sid) # {} =>
                   RelayedTo(r, kind, sid, The(currentRoom(sid)), targetUserId, payload)

-----------------------------------------------------------------------------
(* The event removed userId from the room's member set and members remain *)
Removed(r, roomId, userId) ==
    /\ userId \in Members(rooms, roomId)
    /\ Members(r.rooms, roomId) = Members(rooms, roomId) \ {userId}
    /\ Members(r.rooms, roomId) # {}

(* Every remaining member that has a connected session other than the sender's *)
(* is sent user-disconnected(userId), and the directory is republished.        *)
DepartureAnnounced(r, sid, roomId, userId) ==
    /\ \E i \in Emitted(r, "user-disconnected") :
           /\ r.out[i].body.userId = userId
           /\ \A u \in Members(r.rooms, roomId) :
                  SessionsOf(u) \ {sid} # {} => (SessionsOf(u) \ {sid}) \cap r.out[i].to # {}
    /\ \E i \in Emitted(r, "rooms-update") :
           /\ r.out[i].to = r.connected
           /\ r.out[i].body.rooms = getPublicRooms(r.rooms, r.roomMetadata)

(* C22: whenever leave-room or disconnect removes a user from a room's member *)
(* set and members remain, every remaining member's session is sent           *)
(* user-disconnected(userId) and rooms-update is broadcast in the same event. *)
C22_DepartureAnnounced ==
    ~fault =>
    \A sid \in connected, roomId \in RoomIds, userId \in Users :
        MapGet(socketToUser, sid) = {userId} =>
            /\ Removed(leave_room(sid, roomId, userId), roomId, userId) =>
                   DepartureAnnounced(leave_room(sid, roomId, userId), sid, roomId, userId)
            /\ Removed(disconnect(sid), roomId, userId) =>
                   DepartureAnnounced(disconnect(sid), sid, roomId, userId)

-----------------------------------------------------------------------------
(* The negotiator of one client against its signaling channel.  The server  *)
(* relays offer, answer and ice-candidate to the sender's room without      *)
(* looking at them, so the listeners of a client can be called with any     *)
(* payload at any time.  Peer identifiers that occur nowhere in the hook's  *)
(* state are interchangeable.                                               *)

Local == 1

Peers == Clients \ { Local }

Me == negotiator[Local]

UsedPeers ==
    LET n == Me
    IN  MapKeys(n.peersRef) \cup n.peers \cup n.remoteStreams
        \cup MapKeys(n.connectionStats) \cup MapKeys(n.peerNames)
        \cup MapKeys(n.peerScreenShares) \cup MapKeys(n.prevStatsRef)
        \cup UNION { pass.current \cup MapKeys(pass.nextStats) : pass \in n.sampling }

PeerChoices ==
    UsedPeers \cup (IF Peers \ UsedPeers = {} THEN {} ELSE { Min(Peers \ UsedPeers) })

TargetChoices == { Local, All, Min(Peers) }

LocalStreams == { {} } \cup { { s } : s \in Streams }

Payload(callerId, targetUserId, isScreenShare) ==
    [ callerId |-> callerId, callerName |-> callerId,
      targetUserId |-> targetUserId, isScreenShare |-> isScreenShare ]

CandidatePayload(callerId, targetUserId, candidate) ==
    [ callerId |-> callerId, targetUserId |-> targetUserId, candidate |-> candidate ]

NegotiatorInit ==
    /\ ServerInit
    /\ \E localStream \in LocalStreams, isScreenShare \in BOOLEAN, implicitRollback \in BOOLEAN :
           negotiator = [ c \in Clients |->
                            IF c = Local THEN useWebRTC(c, localStream, isScreenShare, implicitRollback)
                            ELSE useWebRTC(c, {}, FALSE, FALSE) ]
    /\ signals = NoSignals
    /\ steps = 0

Within(bound, r) ==
    LET changes == r.n # Me
    IN  /\ changes => steps < bound
        /\ steps' = IF changes THEN steps + 1 ELSE steps
        /\ negotiator' = [ negotiator EXCEPT ![Local] = r.n ]
        /\ UNCHANGED << signals, serverVars >>

Advance(r) == Within(MaxSteps, r)

UserConnected(data) == Advance(on_user_connected(Me, data))

Offer(callerId, targetUserId, isScreenShare) ==
    Advance(on_offer(Me, Payload(callerId, targetUserId, isScreenShare)))

Answer(callerId, targetUserId, isScreenShare) ==
    Advance(on_answer(Me, Payload(callerId, targetUserId, isScreenShare)))

IceCandidate(callerId, targetUserId, candidate) ==
    Advance(on_ice_candidate(Me, CandidatePayload(callerId, targetUserId, candidate)))

UserDisconnected(id) == Advance(on_user_disconnected(Me, id))

(* Candidates are gathered once a local description is set *)
Gathering(pc) ==
    \/ pc.signalingState = "have-local-offer"
    \/ pc.signalingState = "stable" /\ pc.remoteDescription

OnIceCandidate(targetUserId, candidate) ==
    /\ \E pc \in MapGet(Me.peersRef, targetUserId) : Gathering(pc)
    /\ Advance(onicecandidate(Me, targetUserId, candidate))

OnTrack(targetUserId) ==
    /\ \E pc \in MapGet(Me.peersRef, targetUserId) : pc.remoteDescription
    /\ Advance(ontrack(Me, targetUserId))

StreamSwitch(localStream, isScreenShare, failing) ==
    Advance(streamSwitch(Me, localStream, isScreenShare, failing))

StatsTick ==
    /\ Me.sampling = {}
    /\ Advance(statsTick(Me))

StatsNext ==
    /\ \E pass \in Me.sampling : pass.current = {}
    /\ Advance(statsNext(Me))

StatsDone(report) ==
    /\ \E pass \in Me.sampling : pass.current # {}
    /\ Advance(statsDone(Me, report))

StatsFailed ==
    /\ \E pass \in Me.sampling : pass.current # {}
    /\ Advance(statsFailed(Me))

Resubscribe == Advance(resubscribe(Me))

NegotiatorNext ==
    \/ \E data \in PeerChoices \cup { Local } : UserConnected(data)
    \/ \E callerId \in PeerChoices, targetUserId \in TargetChoices, isScreenShare \in BOOLEAN :
           Offer(callerId, targetUserId, isScreenShare)
    \/ \E callerId \in PeerChoices, targetUserId \in TargetChoices, isScreenShare \in BOOLEAN :
           Answer(callerId, targetUserId, isScreenShare)
    \/ \E callerId \in PeerChoices, targetUserId \in TargetChoices, candidate \in Candidates :
           IceCandidate(callerId, targetUserId, candidate)
    \/ \E id \in PeerChoices : UserDisconnected(id)
    \/ \E targetUserId \in PeerChoices, candidate \in Candidates : OnIceCandidate(targetUserId, candidate)
    \/ \E targetUserId \in PeerChoices : OnTrack(targetUserId)
    \/ \E localStream \in LocalStreams, isScreenShare \in BOOLEAN,
          failing \in SUBSET MapKeys(Me.peersRef) :
           StreamSwitch(localStream, isScreenShare, failing)
    \/ StatsTick
    \/ StatsNext
    \/ \E report \in Reports : StatsDone(report)
    \/ StatsFailed
    \/ Resubscribe

NegotiatorSpec == NegotiatorInit /\ [][NegotiatorNext]_vars

-----------------------------------------------------------------------------
(* The statistics sampler on its own: peers arrive with an offer and leave, *)
(* and the interval callback samples them.  The passes of the sampler are   *)
(* followed further than in NegotiatorSpec.                                 *)

SamplerOffer(callerId) ==
    Within(MaxSamplerSteps, on_offer(Me, Payload(callerId, Local, FALSE)))

SamplerUserDisconnected(id) ==
    Within(MaxSamplerSteps, on_user_disconnected(Me, id))

SamplerTick ==
    /\ Me.sampling = {}
    /\ Within(MaxSamplerSteps, statsTick(Me))

SamplerNext ==
    /\ \E pass \in Me.sampling : pass.current = {}
    /\ Within(MaxSamplerSteps, statsNext(Me))

SamplerDone(report) ==
    /\ \E pass \in Me.sampling : pass.current # {}
    /\ Within(MaxSamplerSteps, statsDone(Me, report))

SamplerFailed ==
    /\ \E pass \in Me.sampling : pass.current # {}
    /\ Within(MaxSamplerSteps, statsFailed(Me))

SamplerInit ==
    /\ ServerInit
    /\ negotiator = [ c \in Clients |-> useWebRTC(c, {}, FALSE, FALSE) ]
    /\ signals = NoSignals
    /\ steps = 0

SamplerSteps ==
    \/ \E callerId \in PeerChoices : SamplerOffer(callerId)
    \/ \E id \in PeerChoices : SamplerUserDisconnected(id)
    \/ SamplerTick
    \/ SamplerNext
    \/ \E report \in Reports : SamplerDone(report)
    \/ SamplerFailed

SamplerSpec == SamplerInit /\ [][SamplerSteps]_vars

-----------------------------------------------------------------------------
(* Properties of the Peer Session Negotiator *)

Connection(n, id) == MapGet(n.peersRef, id)

HasRemoteDescription(n, id) == \E pc \in Connection(n, id) : pc.remoteDescription

AppliedCandidates(n, id) ==
    IF Connection(n, id) = {} THEN << >> ELSE The(Connection(n, id)).candidates

(* The two events that set a remote description *)
Describe(n, kind, callerId) ==
    IF kind = "offer" THEN on_offer(n, Payload(callerId, Local, FALSE)).n
    ELSE on_answer(n, Payload(callerId, Local, FALSE)).n

(* C23: ICE candidates that arrive from a peer while its connection has no  *)
(* remote description, or while there is no connection for it, are not      *)
(* dropped: once the next offer or answer of that peer has set the remote   *)
(* description, the connection has the candidates, in arrival order.        *)
C23_EarlyCandidatesKept ==
    \A callerId \in Peers, first \in Candidates, second \in Candidates, kind \in { "offer", "answer" } :
        ~HasRemoteDescription(Me, callerId) =>
            LET n1 == on_ice_candidate(Me, CandidatePayload(callerId, Local, first)).n
                n2 == on_ice_candidate(n1, CandidatePayload(callerId, Local, second)).n
                n3 == Describe(n2, kind, callerId)
            IN  HasRemoteDescription(n3, callerId) =>
                    AppliedCandidates(n3, callerId) = << first, second >>

-----------------------------------------------------------------------------
(* Two clients in one room, their hooks connected through the server's      *)
(* relay.  The server sends what a client emits to the other sessions of    *)
(* the room, with the sender as callerId and its userName as callerName,    *)
(* in the order emitted; signals[<<from, to>>] holds what is on its way.    *)
(* Client 1 is in the room when client 2 joins it: the server's             *)
(* user-connected(2) is on its way to client 1.                             *)

Pair == { 1, 2 }

Other(c) == CHOOSE d \in Pair : d # c

Camera == CHOOSE s \in Streams : s.id = 1

Relayed(c, m) ==
    [ type |-> m.type,
      body |-> IF m.type = "ice-candidate"
               THEN CandidatePayload(c, m.body.targetUserId, m.body.candidate)
               ELSE [ callerId |-> c, callerName |-> m.body.userName,
                      targetUserId |-> m.body.targetUserId,
                      isScreenShare |-> m.body.isScreenShare ] ]

RECURSIVE RelayAll(_, _)
RelayAll(c, out) ==
    IF out = << >> THEN << >> ELSE << Relayed(c, Head(out)) >> \o RelayAll(c, Tail(out))

PairInit ==
    /\ ServerInit
    /\ \E rollback \in [ Pair -> BOOLEAN ] :
           negotiator = [ c \in Clients |->
                            IF c \in Pair THEN useWebRTC(c, { Camera }, FALSE, rollback[c])
                            ELSE useWebRTC(c, {}, FALSE, FALSE) ]
    /\ signals = [ NoSignals EXCEPT ![<< 2, 1 >>] = << [ type |-> "user-connected", body |-> 2 ] >> ]
    /\ steps = 0

Delivered(c, type) ==
    /\ signals[<< Other(c), c >>] # << >>
    /\ Head(signals[<< Other(c), c >>]).type = type

(* Client c handled the first signal on its way to it, with result r *)
Handled(c, r) ==
    /\ negotiator' = [ negotiator EXCEPT ![c] = r.n ]
    /\ signals' = [ signals EXCEPT ![<< Other(c), c >>] = Tail(@),
                                   ![<< c, Other(c) >>] = @ \o RelayAll(c, r.out) ]
    /\ UNCHANGED << steps, serverVars >>

PairUserConnected(c) ==
    /\ Delivered(c, "user-connected")
    /\ Handled(c, on_user_connected(negotiator[c], Head(signals[<< Other(c), c >>]).body))

PairOffer(c) ==
    /\ Delivered(c, "offer")
    /\ Handled(c, on_offer(negotiator[c], Head(signals[<< Other(c), c >>]).body))

PairAnswer(c) ==
    /\ Delivered(c, "answer")
    /\ Handled(c, on_answer(negotiator[c], Head(signals[<< Other(c), c >>]).body))

(* The user of client c switches between camera and screen share *)
PairStreamSwitch(c, localStream, isScreenShare) ==
    LET r == streamSwitch(negotiator[c], { localStream }, isScreenShare, {})
    IN  /\ steps < MaxSwitches
        /\ steps' = steps + 1
        /\ negotiator' = [ negotiator EXCEPT ![c] = r.n ]
        /\ signals' = [ signals EXCEPT ![<< c, Other(c) >>] = @ \o RelayAll(c, r.out) ]
        /\ UNCHANGED serverVars

PairNext ==
    \/ \E c \in Pair : PairUserConnected(c)
    \/ \E c \in Pair : PairOffer(c)
    \/ \E c \in Pair : PairAnswer(c)
    \/ \E c \in Pair, localStream \in Streams, isScreenShare \in BOOLEAN :
           PairStreamSwitch(c, localStream, isScreenShare)

PairSpec == PairInit /\ [][PairNext]_vars

(* No signal is on its way between the two clients *)
Quiet == \A link \in Pair \X Pair : signals[link] = << >>

SignalingStates(c) == { pc.signalingState : pc \in Connection(negotiator[c], Other(c)) }

(* C24: a pair of connected clients comes back to Connected after           *)
(* renegotiation offers that crossed: once every signal has been delivered  *)
(* the connection of each side is stable again, no side is left with an     *)
(* offer that was never answered.                                           *)
C24_GlareConverges ==
    Quiet => \A c \in Pair : SignalingStates(c) \subseteq { "stable" }

(* localStream replaces a different stream the hook holds *)
Replaces(localStream) ==
    Me.localStreamRef # {} /\ localStream.id # The(Me.localStreamRef).id

SameConnections(n, m) ==
    /\ Len(n.peersRef) = Len(m.peersRef)
    /\ \A i \in 1..Len(n.peersRef) :
           /\ n.peersRef[i][1] = m.peersRef[i][1]
           /\ n.peersRef[i][2].id = m.peersRef[i][2].id

C26_JoinOffersOnce ==
    /\ Cardinality(MapKeys(Me.peersRef)) = Len(Me.peersRef)
    /\ \A userId \in Peers :
           LET r == on_user_connected(Me, userId)
           IN  IF Connection(Me, userId) = {}
               THEN /\ Len(r.n.peersRef) = Len(Me.peersRef) + 1
                    /\ Connection(r.n, userId) # {}
                    /\ Len(r.out) = 1
                    /\ r.out[1].type = "offer"
                    /\ r.out[1].body.targetUserId = userId
               ELSE /\ SameConnections(r.n, Me)
                    /\ Len(r.out) = 0

(* C27: an offer from callerId is handled on the connection the hook has    *)
(* for callerId, which stays the same connection, or on a new one when it   *)
(* has none; no other connection is touched; the offer is answered by       *)
(* exactly one answer, addressed to callerId, and the hook is left with the *)
(* offer applied as remote description and the answer as local description. *)
C27_OfferAnsweredOnce ==
    \A callerId \in Peers, targetUserId \in { Local, All }, isScreenShare \in BOOLEAN :
        LET r == on_offer(Me, Payload(callerId, targetUserId, isScreenShare))
            before == Connection(Me, callerId)
            after == Connection(r.n, callerId)
        IN  /\ after # {}
            /\ before # {} => SameConnections(r.n, Me)
            /\ before = {} => /\ Len(r.n.peersRef) = Len(Me.peersRef) + 1
                              /\ The(after).id = Me.created + 1
                              /\ \A i \in 1..Len(Me.peersRef) : r.n.peersRef[i] = Me.peersRef[i]
            /\ Len(r.out) = 1
            /\ r.out[1].type = "answer"
            /\ r.out[1].body.targetUserId = callerId
            /\ The(after).remoteDescription
            /\ The(after).signalingState = "stable"

(* The users the hook keeps a display name or a screen-share flag for *)
Named(n) == MapKeys(n.peerNames) \cup MapKeys(n.peerScreenShares)

(* C28: an answer from a callerId the hook has no connection for changes    *)
(* nothing, and so the hook never keeps a display name or a screen-share    *)
(* flag for a user it has no connection for.                                *)
C28_AnswerWithoutConnectionIgnored ==
    /\ \A callerId \in Peers, isScreenShare \in BOOLEAN :
           Connection(Me, callerId) = {} =>
               on_answer(Me, Payload(callerId, Local, isScreenShare)).n = Me
    /\ Named(Me) \subseteq MapKeys(Me.peersRef)

(* The users the hook holds a connection or any per-peer state for *)
Held(n) ==
    MapKeys(n.peersRef) \cup n.peers \cup n.remoteStreams \cup Named(n)
    \cup MapKeys(n.connectionStats) \cup MapKeys(n.prevStatsRef)

(* C29: after user-disconnected(userId) the hook holds nothing for userId;  *)
(* an answer or an ICE candidate from userId that arrives afterwards        *)
(* changes nothing; a user-connected or an offer for userId that arrives    *)
(* afterwards creates a new connection, with no statistics history.         *)
C29_PeerLeftForgotten ==
    \A userId \in Peers :
        LET gone == on_user_disconnected(Me, userId).n
            joined == on_user_connected(gone, userId).n
            offered == on_offer(gone, Payload(userId, Local, FALSE)).n
        IN  /\ userId \notin Held(gone)
            /\ \A isScreenShare \in BOOLEAN :
                   on_answer(gone, Payload(userId, Local, isScreenShare)).n = gone
            /\ \A candidate \in Candidates :
                   on_ice_candidate(gone, CandidatePayload(userId, Local, candidate)).n = gone
            /\ \A again \in { joined, offered } :
                   /\ \E pc \in Connection(again, userId) : pc.id = gone.created + 1
                   /\ MapGet(again.prevStatsRef, userId) = {}

(* The fraction lies between 0 and 100 *)
IsPercentage(p) == p.den > 0 /\ 0 <= p.num /\ p.num <= 100 * p.den

(* The statistics history of peerId, zero when there is none *)
PrevStats(n, peerId) ==
    IF MapGet(n.prevStatsRef, peerId) = {} THEN NoPrevStats ELSE The(MapGet(n.prevStatsRef, peerId))

(* C30: whatever the counters read, the loss percentage the sampler records *)
(* for a peer is the share of lost packets among the packets lost and       *)
(* received since the previous sample of that peer, and lies in [0, 100].   *)
C30_LossInRange ==
    \A pass \in Me.sampling, report \in Reports :
        pass.current # {} =>
            LET peerId == The(pass.current)
                prev == PrevStats(Me, peerId)
                deltaLost == report.packetsLost - prev.packetsLost
                deltaReceived == report.packetsReceived - prev.packetsReceived
                next == The(statsDone(Me, report).n.sampling).nextStats
                loss == The(MapGet(next, peerId)).packetLossPercentage
            IN  /\ deltaLost + deltaReceived > 0 =>
                       loss.num * (deltaLost + deltaReceived) = 100 * deltaLost * loss.den
                /\ IsPercentage(loss)

(* The read in flight is not the last one of the pass *)
MoreToSample(n) ==
    \E pass \in n.sampling : pass.current # {} /\ pass.pos < Len(n.peersRef)

(* C31: when getStats fails for a peer the connections stay, what the pass  *)
(* has sampled so far stays, and the pass goes on to the next peer, whose   *)
(* reading is in the snapshot published at the end of the pass; when        *)
(* replaceTrack fails for some peers the stream switch emits the same       *)
(* offers as when it fails for none, one to each peer, and the connections  *)
(* stay.                                                                    *)
C31_FailuresDoNotAbort ==
    /\ \A pass \in Me.sampling, report \in Reports :
           pass.current # {} =>
               LET failed == statsFailed(Me).n
                   next == statsNext(failed).n
                   done == statsDone(next, report).n
               IN  /\ SameConnections(failed, Me)
                   /\ failed.sampling # {}
                   /\ The(failed.sampling).nextStats = pass.nextStats
                   /\ MoreToSample(Me) =>
                          /\ The(next.sampling).current = { Me.peersRef[pass.pos + 1][1] }
                          /\ MapHas(The(done.sampling).nextStats, Me.peersRef[pass.pos + 1][1])
                          /\ SameConnections(done, Me)
    /\ \A localStream \in Streams, isScreenShare \in BOOLEAN, failing \in SUBSET MapKeys(Me.peersRef) :
           Replaces(localStream) =>
               LET r == streamSwitch(Me, { localStream }, isScreenShare, failing)
               IN  /\ r.out = streamSwitch(Me, { localStream }, isScreenShare, {}).out
                   /\ Len(r.out) = Len(Me.peersRef)
                   /\ SameConnections(r.n, Me)

(* C31 witness: two connections that send the camera's video; the read of   *)
(* the first is in flight and fails, the second is read next; and a switch  *)
(* to the screen stream whose track replacement fails on both connections   *)
(* leaves the camera track in place and emits both offers.                  *)
C31_Witness ==
    /\ Len(Me.peersRef) = 2
    /\ MoreToSample(Me)
    /\ The(statsNext(statsFailed(Me).n).n.sampling).current = { Me.peersRef[2][1] }
    /\ \E screen \in Streams :
           /\ screen.video
           /\ Replaces(screen)
           /\ \A i \in 1..2 : Me.peersRef[i][2].video = The(Me.localStreamRef).id
           /\ LET r == streamSwitch(Me, { screen }, TRUE, MapKeys(Me.peersRef))
              IN  /\ Len(r.out) = 2
                  /\ \A i \in 1..2 : r.n.peersRef[i][2].video = The(Me.localStreamRef).id

-----------------------------------------------------------------------------
(* The clients and the server together: every client mounts the hook with   *)
(* the same room, under its own user id on its own session.  What a client  *)
(* emits waits on signals[<<c, c>>] until the server handles it; what the   *)
(* server sends to session c while handling an event of session d waits on  *)
(* signals[<<d, c>>] until the hook of c handles it.  The event loops of    *)
(* the server and of the clients handle every waiting message eventually.   *)

MeshRoom == Min(RoomIds)

Uplink(c) == << c, c >>

(* The events the hook listens to *)
HookEvents == { "user-connected", "offer", "answer", "ice-candidate", "user-disconnected" }

(* A server message as the listener of the hook receives it *)
Received(m) ==
    [ type |-> m.type,
      body |-> IF m.type \in { "offer", "answer" }
               THEN [ callerId |-> m.body.callerId,
                      callerName |-> m.body.payload.userName,
                      targetUserId |-> m.body.targetUserId,
                      isScreenShare |-> m.body.payload.isScreenShare ]
               ELSE m.body.userId ]

RECURSIVE ReceivedBy(_, _)
ReceivedBy(s, out) ==
    IF out = << >> THEN << >>
    ELSE (IF s \in Head(out).to /\ Head(out).type \in HookEvents
          THEN << Received(Head(out)) >> ELSE << >>)
         \o ReceivedBy(s, Tail(out))

MeshInit ==
    /\ ServerInit
    /\ negotiator = [ c \in Clients |-> useWebRTC(c, { Camera }, FALSE, FALSE) ]
    /\ signals = [ link \in Clients \X Clients |->
                     IF link[1] = link[2] THEN resubscribe(useWebRTC(link[1], { Camera }, FALSE, FALSE)).out
                     ELSE << >> ]
    /\ steps = 0

Emitted_By(c, type) ==
    /\ c \in Sockets
    /\ signals[Uplink(c)] # << >>
    /\ Head(signals[Uplink(c)]).type = type

(* The server handled the first event of session c, with result r *)
Served(c, r) ==
    /\ Commit(r)
    /\ signals' = [ link \in Clients \X Clients |->
                      IF link = Uplink(c) THEN Tail(signals[link])
                      ELSE IF link[1] = c THEN signals[link] \o ReceivedBy(link[2], r.out)
                      ELSE signals[link] ]
    /\ UNCHANGED << negotiator, steps >>

MeshJoinRoom(c) ==
    /\ Emitted_By(c, "join-room")
    /\ Live(c)
    /\ Served(c, join_room(c, MeshRoom, Head(signals[Uplink(c)]).body.userId, NoConfig))

MeshRelay(c, kind) ==
    /\ Emitted_By(c, kind)
    /\ Live(c)
    /\ LET body == Head(signals[Uplink(c)]).body
       IN  Served(c, relay(kind, c, body.targetUserId,
                           [ userName |-> body.userName, isScreenShare |-> body.isScreenShare ]))

Arrived(d, c, type) ==
    /\ d # c
    /\ signals[<< d, c >>] # << >>
    /\ Head(signals[<< d, c >>]).type = type

(* The hook of client c handled the first message sent to it on behalf of d *)
Listened(d, c, r) ==
    /\ negotiator' = [ negotiator EXCEPT ![c] = r.n ]
    /\ signals' = [ signals EXCEPT ![<< d, c >>] = Tail(@),
                                   ![Uplink(c)] = @ \o r.out ]
    /\ UNCHANGED << steps, serverVars >>

MeshUserConnected(d, c) ==
    /\ Arrived(d, c, "user-connected")
    /\ Listened(d, c, on_user_connected(negotiator[c], Head(signals[<< d, c >>]).body))

MeshOffer(d, c) ==
    /\ Arrived(d, c, "offer")
    /\ Listened(d, c, on_offer(negotiator[c], Head(signals[<< d, c >>]).body))

MeshAnswer(d, c) ==
    /\ Arrived(d, c, "answer")
    /\ Listened(d, c, on_answer(negotiator[c], Head(signals[<< d, c >>]).body))

MeshNext ==
    \/ \E c \in Clients : MeshJoinRoom(c)
    \/ \E c \in Clients, kind \in { "offer", "answer" } : MeshRelay(c, kind)
    \/ \E d \in Clients, c \in Clients : MeshUserConnected(d, c)
    \/ \E d \in Clients, c \in Clients : MeshOffer(d, c)
    \/ \E d \in Clients, c \in Clients : MeshAnswer(d, c)

MeshSpec == MeshInit /\ [][MeshNext]_vars /\ WF_vars(MeshNext)

(* Client c holds a connection to d that is in place: stable, with the      *)
(* description of d applied.                                                *)
ConnectedTo(c, d) ==
    \E pc \in Connection(negotiator[c], d) :
        pc.signalingState = "stable" /\ pc.remoteDescription

FullMesh ==
    \A c \in Clients : \A d \in Clients \ { c } :
        /\ c \in Members(rooms, MeshRoom)
        /\ ConnectedTo(c, d)

(* The offers on their way, each as <<sender, addressee>> *)
OffersInFlight ==
    UNION { { << c, signals[Uplink(c)][i].body.targetUserId >> :
                  i \in { j \in 1..Len(signals[Uplink(c)]) :
                             signals[Uplink(c)][j].type = "offer" } } : c \in Clients }
    \cup { link \in Clients \X Clients :
             /\ link[1] # link[2]
             /\ \E i \in 1..Len(signals[link]) :
                    /\ signals[link][i].type = "offer"
                    /\ signals[link][i].body.targetUserId = link[2] }

(* d became a member of the room before c *)
JoinedBefore(d, c) ==
    /\ { d, c } \subseteq Members(rooms, MeshRoom)
    /\ MapIndex([ i \in 1..Len(rooms[MeshRoom]) |-> << rooms[MeshRoom][i], i >> ], d)
         < MapIndex([ i \in 1..Len(rooms[MeshRoom]) |-> << rooms[MeshRoom][i], i >> ], c)

OfferedByEarlier ==
    /\ \A link \in OffersInFlight : JoinedBefore(link[1], link[2])
    /\ \A c \in Clients : \A d \in Clients \ { c } :
           ~(/\ \E pc \in Connection(negotiator[c], d) : pc.signalingState = "have-local-offer"
             /\ \E pc \in Connection(negotiator[d], c) : pc.signalingState = "have-local-offer")

(* C32: when the clients join one room one after another and none leaves,   *)
(* every offer is sent by the member that joined earlier to the one that    *)
(* joined later, never both ways, and under fair delivery every client ends *)
(* up holding a stable connection to every other member.                    *)
C32_FullMesh == []OfferedByEarlier /\ <>[]FullMesh

(* C32 witness: all clients are members, every pair is connected both ways  *)
(* and nothing is on its way any more.                                      *)
C32_Witness ==
    /\ Cardinality(Members(rooms, MeshRoom)) = NumClients
    /\ FullMesh
    /\ \A link \in Clients \X Clients : signals[link] = << >>


-----------------------------------------------------------------------------
(* The directory broadcast                                                   *)

(* What an event of session sid can make of the current state: the result   *)
(* of every handler on every input the session can send.                    *)
OutcomesOf(sid) ==
    { get_rooms(sid), disconnect(sid) }
    \cup { join_room(sid, roomId, odId, config) :
               roomId \in RoomIds, odId \in Users, config \in Configs }
    \cup { admit_user(sid, roomId, odId) : roomId \in RoomIds, odId \in Users }
    \cup { deny_user(sid, roomId, odId) : roomId \in RoomIds, odId \in Users }
    \cup { toggle_lock(sid, roomId) : roomId \in RoomIds }
    \cup { toggle_waiting_room(sid, roomId) : roomId \in RoomIds }
    \cup { leave_room(sid, roomId, userId) : roomId \in RoomIds, userId \in Users }
    \cup { relay(kind, sid, targetUserId, payload) :
               kind \in RelayKinds, targetUserId \in Users, payload \in Payloads }
    \cup { fanout(kind, sid, roomId, payload) :
               kind \in FanoutKinds, roomId \in RoomIds, payload \in Payloads }

(* What any one event can make of the current state *)
Outcomes == UNION { OutcomesOf(sid) : sid \in connected }

Directory(r) == getPublicRooms(r.rooms, r.roomMetadata)

Last(S) == CHOOSE x \in S : \A y \in S : y <= x

(* the rooms-update messages of a result that go to every client *)
Broadcasts(r) == { i \in Emitted(r, "rooms-update") : r.out[i].to = r.connected }

(* C33: an event that changes the directory (a public room's existence,     *)
(* member count, lock flag or waiting-room flag) broadcasts rooms-update to  *)
(* every client before it ends, and the last rooms-update an event          *)
(* broadcasts carries the directory as the event leaves it.                 *)
C33_DirectoryBroadcast ==
    ~fault =>
    \A r \in Outcomes :
        /\ Directory(r) # Directory(Current) => Broadcasts(r) # {}
        /\ Broadcasts(r) # {} =>
               r.out[Last(Broadcasts(r))].body.rooms = Directory(r)


C33_Witness ==
    /\ ~fault
    /\ Directory(Current) # << >>
    /\ \E sid \in connected :
           LET r == disconnect(sid)
           IN  /\ Directory(r) # Directory(Current)
               /\ r.connected # {}
               /\ Broadcasts(r) # {}
    /\ \E sid \in connected, roomId \in RoomIds :
           LET r == toggle_lock(sid, roomId)
           IN  Directory(r) # Directory(Current) /\ Broadcasts(r) # {}


(* The pass in flight runs to its end, every read it still makes resolving   *)
(* with report.                                                              *)
RECURSIVE passEnds(_, _)
passEnds(n, report) ==
    IF n.sampling = {} THEN n
    ELSE IF The(n.sampling).current # {} THEN passEnds(statsDone(n, report).n, report)
    ELSE passEnds(statsNext(n).n, report)

(* C34: when user-disconnected(userId) is handled while the getStats read    *)
(* for userId is in flight, then after the read resolves and the pass ends   *)
(* the hook holds no statistics snapshot and no statistics history for       *)
(* userId.                                                                   *)
C34_NoStatsForDeparted ==
    \A pass \in Me.sampling, report \in Reports :
        pass.current # {} =>
            LET userId == The(pass.current)
                gone == on_user_disconnected(Me, userId).n
                sampled == statsDone(gone, report).n
                ended == passEnds(gone, report)
            IN  /\ MapGet(sampled.prevStatsRef, userId) = {}
                /\ MapGet(ended.prevStatsRef, userId) = {}
                /\ MapGet(ended.connectionStats, userId) = {}


-----------------------------------------------------------------------------
(* The sessions bound to a current member of the room *)
SessionsOfMembers(roomId) ==
    { s \in connected : MapGet(socketToUser, s) \cap Members(rooms, roomId) # {} }

(* C35: a chat-message, reaction, caption, whiteboard-draw or                *)
(* whiteboard-clear naming room r reaches a session of a member of r only    *)
(* when the sending session is bound to a current member of r.               *)
C35_FanoutFromMembersOnly ==
    ~fault =>
    \A kind \in FanoutKinds, sid \in connected, roomId \in RoomIds, payload \in Payloads :
        LET r == fanout(kind, sid, roomId, payload)
        IN  MapGet(socketToUser, sid) \cap Members(rooms, roomId) = {} =>
                \A i \in 1..Len(r.out) : r.out[i].to \cap SessionsOfMembers(roomId) = {}


-----------------------------------------------------------------------------
(* The messages of a room *)
RoomMessages ==
    { "user-connected", "user-disconnected", "offer", "answer", "ice-candidate",
      "chat-message", "room-settings-update" }

(* The lobby: one room, and for every session the messages the server has   *)
(* sent it so far.  signals[<< c, s >>] holds what the events of session c  *)
(* made the server send to session s; the broadcast directory is left out.  *)
Lobby == Min(RoomIds)

RECURSIVE Heard(_, _)
Heard(s, out) ==
    IF out = << >> THEN << >>
    ELSE (IF s \in Head(out).to /\ Head(out).type # "rooms-update"
          THEN << [ type |-> Head(out).type, body |-> Head(out).body ] >> ELSE << >>)
         \o Heard(s, Tail(out))

(* The server handled an event of session c, with result r *)
Told(c, r) ==
    /\ steps < MaxLobbySteps
    /\ steps' = steps + 1
    /\ Commit(r)
    /\ signals' = [ link \in Clients \X Clients |->
                      IF link[1] = c THEN signals[link] \o Heard(link[2], r.out)
                      ELSE signals[link] ]
    /\ UNCHANGED negotiator

LobbyJoinRoom(sid, odId, config) == Live(sid) /\ Told(sid, join_room(sid, Lobby, odId, config))

LobbyAdmitUser(sid, odId) == Live(sid) /\ Told(sid, admit_user(sid, Lobby, odId))

LobbyDenyUser(sid, odId) == Live(sid) /\ Told(sid, deny_user(sid, Lobby, odId))

LobbyToggleLock(sid) == Live(sid) /\ Told(sid, toggle_lock(sid, Lobby))

LobbyToggleWaitingRoom(sid) == Live(sid) /\ Told(sid, toggle_waiting_room(sid, Lobby))

LobbyRelay(kind, sid, targetUserId, payload) ==
    Live(sid) /\ Told(sid, relay(kind, sid, targetUserId, payload))

LobbyFanout(kind, sid, payload) == Live(sid) /\ Told(sid, fanout(kind, sid, Lobby, payload))

LobbyLeaveRoom(sid, userId) == Live(sid) /\ Told(sid, leave_room(sid, Lobby, userId))

LobbyDisconnect(sid) == Live(sid) /\ Told(sid, disconnect(sid))

LobbyNext ==
    \/ \E sid \in SocketChoices, odId \in UserChoices :
           \E config \in ConfigChoices(Lobby) : LobbyJoinRoom(sid, odId, config)
    \/ \E sid \in SocketChoices, odId \in UserChoices : LobbyAdmitUser(sid, odId)
    \/ \E sid \in SocketChoices, odId \in UserChoices : LobbyDenyUser(sid, odId)
    \/ \E sid \in SocketChoices : LobbyToggleLock(sid)
    \/ \E sid \in SocketChoices : LobbyToggleWaitingRoom(sid)
    \/ \E kind \in RelayKinds, sid \in SocketChoices, targetUserId \in UserChoices,
          payload \in Payloads :
           LobbyRelay(kind, sid, targetUserId, payload)
    \/ \E kind \in FanoutKinds, sid \in SocketChoices, payload \in Payloads :
           LobbyFanout(kind, sid, payload)
    \/ \E sid \in SocketChoices, userId \in UserChoices : LobbyLeaveRoom(sid, userId)
    \/ \E sid \in SocketChoices : LobbyDisconnect(sid)

LobbySpec == Init /\ [][LobbyNext]_vars

(* The kinds of message the server has sent the session *)
Inbox(sid) ==
    UNION { { signals[<< c, sid >>][i].type : i \in 1..Len(signals[<< c, sid >>]) } :
            c \in Clients }

(* The session was told that it waits for admission and was never told that *)
(* it joined or was admitted.                                               *)
OnlyRequested(sid) ==
    /\ "waiting-room" \in Inbox(sid)
    /\ Inbox(sid) \cap { "room-joined", "admitted" } = {}

(* The kinds of message the event o sends the session *)
Hears(o, sid) == { o.out[i].type : i \in { i \in 1..Len(o.out) : sid \in o.out[i].to } }

(* C36: a session that has only requested entry through the waiting room    *)
(* and has not been admitted has received no user-connected,                *)
(* user-disconnected, offer, answer, ice-candidate, chat-message or         *)
(* room-settings-update, and no event sends it one.                         *)
C36_WaitingReceivesNothing ==
    ~fault =>
    \A sid \in connected :
        OnlyRequested(sid) =>
            /\ Inbox(sid) \cap RoomMessages = {}
            /\ \A o \in Outcomes :
                   Hears(o, sid) \cap { "room-joined", "admitted" } = {} =>
                       Hears(o, sid) \cap RoomMessages = {}


-----------------------------------------------------------------------------
(* In state st every connected session is in a room's delivery group exactly *)
(* when the user it is bound to is in the room's member set.                 *)
GroupIsMembers(st) ==
    \A s \in st.connected, roomId \in RoomIds :
        roomId \in st.socketRooms[s]
            <=> MapGet(st.socketToUser, s) \cap Members(st.rooms, roomId) # {}

(* C37: at every state a session belongs to a room's delivery group iff the  *)
(* user bound to it is in the room's member set, and a leave-room sent by a  *)
(* session bound to a different user leaves it so.                           *)
C37_GroupIffMember ==
    ~fault =>
    /\ GroupIsMembers(Current)
    /\ \A sid \in connected, roomId \in RoomIds, userId \in Users :
           MapGet(socketToUser, sid) # {userId} =>
               GroupIsMembers(leave_room(sid, roomId, userId))


-----------------------------------------------------------------------------
(* C38: at every state, a user that has a current-room binding to a room is  *)
(* in the member set of that room, which exists.                             *)
C38_BindingIsMembership ==
    ~fault =>
    \A u \in DOMAIN userToRoom :
        /\ userToRoom[u] \in DOMAIN rooms
        /\ MapHas(roomMetadata, userToRoom[u])
        /\ u \in Members(rooms, userToRoom[u])


(* C38 witness: two users are bound to a room they are members of, a third   *)
(* user is a member of a room and has lost its binding, and the leave-room   *)
(* of a bound member removes its binding with its membership.                *)
C38_Witness ==
    /\ ~fault
    /\ Cardinality(DOMAIN userToRoom) >= 2
    /\ \E roomId \in DOMAIN rooms : Members(rooms, roomId) \ DOMAIN userToRoom # {}
    /\ \E sid \in connected, u \in DOMAIN userToRoom :
           LET r == leave_room(sid, userToRoom[u], u)
           IN  /\ MapGet(socketToUser, sid) = {u}
               /\ u \notin DOMAIN r.userToRoom
               /\ u \notin Members(r.rooms, userToRoom[u])
               /\ DOMAIN r.userToRoom # {}


-----------------------------------------------------------------------------
(* C39: a leave-room naming a user that is not a member of the named room    *)
(* leaves every member set, every current-room binding and every room's      *)
(* metadata (host included) as they are.                                     *)
C39_LeaveByNonMemberIgnored ==
    ~fault =>
    \A sid \in connected, roomId \in RoomIds, userId \in Users :
        userId \notin Members(rooms, roomId) =>
            LET r == leave_room(sid, roomId, userId)
            IN  /\ r.rooms = rooms
                /\ r.userToRoom = userToRoom
                /\ r.roomMetadata = roomMetadata


-----------------------------------------------------------------------------
(* The session is bound to a user that is a member of its current room *)
MemberSession(sid, u) ==
    /\ MapGet(socketToUser, sid) = {u}
    /\ \E roomId \in FunGet(userToRoom, u) : u \in Members(rooms, roomId)

(* C40: a connected session whose user is a member of its room keeps its     *)
(* Session Binding through every event of the other sessions (deny-user and  *)
(* the closing of another room where it holds a Waiting Entry included): its *)
(* offer is still relayed and its disconnect still removes the user from the *)
(* room.                                                                     *)
C40_MemberKeepsBinding ==
    ~fault =>
    \A sid \in connected, u \in Users :
        MemberSession(sid, u) =>
            \A c \in connected \ {sid} : \A o \in OutcomesOf(c) :
                ~o.fault => MapGet(o.socketToUser, sid) = {u}

====

